---- MODULE Spec2Model ----
(***************************************************************************)
(* Model of the validation / secure-execution core of                      *)
(* github-actions-optimizer (gh_actions_optimizer/shared).                 *)
(*                                                                         *)
(* Strings are sequences of one-character strings, so that the regular     *)
(* expressions, substring tests and prefix tests of the source are         *)
(* computed character by character.  A Python None is the value None.      *)
(* The outcome of a call is a record Return(v), Raise(e) or Exit(code).    *)
(***************************************************************************)
EXTENDS Integers, Sequences, FiniteSets, TLC

(***************************************************************************)
(* Characters and string helpers (Python str semantics).                   *)
(***************************************************************************)
LowerSeq == <<"a","b","c","d","e","f","g","h","i","j","k","l","m",
              "n","o","p","q","r","s","t","u","v","w","x","y","z">>
UpperSeq == <<"A","B","C","D","E","F","G","H","I","J","K","L","M",
              "N","O","P","Q","R","S","T","U","V","W","X","Y","Z">>
LowerChars == {LowerSeq[i] : i \in 1..26}
UpperChars == {UpperSeq[i] : i \in 1..26}
DigitChars == {"0","1","2","3","4","5","6","7","8","9"}
AlnumChars == LowerChars \cup UpperChars \cup DigitChars
\* regex \w
WordChars == AlnumChars \cup {"_"}
\* str.strip() without arguments and regex \s
WhitespaceChars == {" ", "\t", "\n", "\r", "\f"}

None == <<"<None>">>

ToLower(c) ==
  IF c \in UpperChars
    THEN LowerSeq[CHOOSE i \in 1..26 : UpperSeq[i] = c]
    ELSE c

\* str.lower()
Lower(s) == [i \in 1..Len(s) |-> ToLower(s[i])]

SetMin(S) == CHOOSE x \in S : \A y \in S : x <= y
SetMax(S) == CHOOSE x \in S : \A y \in S : x >= y

\* index of the first position >= i whose character is not in the class
\* (Len(s) + 1 when the run reaches the end): a greedy cls* from i
RECURSIVE RunEnd(_, _, _)
RunEnd(s, i, cls) ==
  IF i > Len(s) THEN Len(s) + 1
  ELSE IF s[i] \notin cls THEN i
  ELSE RunEnd(s, i + 1, cls)

\* index of the last position <= i whose character is not in the class
\* (0 when there is none)
RECURSIVE RunStart(_, _, _)
RunStart(s, i, cls) ==
  IF i < 1 THEN 0
  ELSE IF s[i] \notin cls THEN i
  ELSE RunStart(s, i - 1, cls)

\* str.strip()
Strip(s) ==
  SubSeq(s, RunEnd(s, 1, WhitespaceChars), RunStart(s, Len(s), WhitespaceChars))

\* s[i:i+len(sub)] == sub
MatchAt(s, i, sub) ==
  /\ i >= 1
  /\ i + Len(sub) - 1 <= Len(s)
  /\ \A k \in 1..Len(sub) : s[i + k - 1] = sub[k]

\* sub in s
Contains(s, sub) == \E i \in 1..(Len(s) + 1) : MatchAt(s, i, sub)

\* s.startswith(p), s.endswith(p)
StartsWith(s, p) == MatchAt(s, 1, p)
EndsWith(s, p) == Len(p) <= Len(s) /\ MatchAt(s, Len(s) - Len(p) + 1, p)

(***************************************************************************)
(* Outcomes of a call.                                                     *)
(***************************************************************************)
Return(v) == [kind |-> "return", val |-> v]
Raise(e) == [kind |-> "raise", val |-> <<e>>]
Exit(code) == [kind |-> "exit", val |-> <<code>>]
Pending == [kind |-> "pending", val |-> <<>>]

(***************************************************************************)
(* shared/validation.py: InputValidator                                    *)
(***************************************************************************)
MAX_REPO_LENGTH == 100

\* the (?i) literal `lit` occurs in s
ContainsCI(s, lit) == Contains(Lower(s), lit)

\* (?i)<name>\s*\(  for name in eval, exec, system
CallPattern(s, name) ==
  \E i \in 1..Len(s) :
    /\ MatchAt(Lower(s), i, name)
    /\ LET j == RunEnd(s, i + Len(name), WhitespaceChars)
       IN  j <= Len(s) /\ s[j] = "("

\* InputValidator.DANGEROUS_PATTERNS, searched with re.search
DangerousTraversal(s) ==
  \E i \in 1..Len(s) :
    MatchAt(s, i, <<".",".">>) /\ i + 2 <= Len(s) /\ s[i + 2] \in {"/", "\\"}
DangerousVarInjection(s) ==
  \E i \in 1..Len(s) :
    /\ MatchAt(s, i, <<"$","{">>)
    /\ LET j == RunEnd(s, i + 2, {s[k] : k \in 1..Len(s)} \ {"}"})
       IN  j <= Len(s) /\ j - (i + 2) <= 50
DangerousScriptScheme(s) == ContainsCI(s, <<"s","c","r","i","p","t",":">>)
DangerousScriptTag(s) ==
  \E i \in 1..Len(s) :
    /\ MatchAt(Lower(s), i, <<"<","s","c","r","i","p","t">>)
    /\ i + 7 <= Len(s)
    /\ s[i + 7] \in ({">"} \cup WhitespaceChars)
DangerousImportOs(s) ==
  \E i \in 1..Len(s) :
    /\ MatchAt(Lower(s), i, <<"i","m","p","o","r","t">>)
    /\ LET j == RunEnd(s, i + 6, WhitespaceChars)
       IN  /\ j > i + 6
           /\ MatchAt(Lower(s), j, <<"o","s">>)
           /\ (j + 2 > Len(s) \/ s[j + 2] \notin WordChars)

HasDangerousPattern(s) ==
  \/ DangerousTraversal(s)
  \/ DangerousVarInjection(s)
  \/ DangerousScriptScheme(s)
  \/ DangerousScriptTag(s)
  \/ CallPattern(s, <<"e","v","a","l">>)
  \/ CallPattern(s, <<"e","x","e","c">>)
  \/ CallPattern(s, <<"s","y","s","t","e","m">>)
  \/ DangerousImportOs(s)
  \/ ContainsCI(s, <<"_","_","i","m","p","o","r","t","_","_">>)
  \/ ContainsCI(s, <<"s","u","b","p","r","o","c","e","s","s",".">>)
  \/ ContainsCI(s, <<"o","s",".","s","y","s","t","e","m">>)

\* one side of GITHUB_REPO_PATTERN:
\* [a-zA-Z0-9](?:[a-zA-Z0-9._-]{0,98}[a-zA-Z0-9])?
RepoSegment(x) ==
  /\ Len(x) >= 1
  /\ Len(x) <= 100
  /\ x[1] \in AlnumChars
  /\ x[Len(x)] \in AlnumChars
  /\ \A i \in 1..Len(x) : x[i] \in AlnumChars \cup {".", "_", "-"}

RepoGrammar(s) ==
  \E k \in 1..Len(s) :
    /\ s[k] = "/"
    /\ RepoSegment(SubSeq(s, 1, k - 1))
    /\ RepoSegment(SubSeq(s, k + 1, Len(s)))

\* GITHUB_REPO_PATTERN.match(s); `$` also matches before a final newline
GITHUB_REPO_PATTERN(s) ==
  \/ RepoGrammar(s)
  \/ Len(s) > 0 /\ s[Len(s)] = "\n" /\ RepoGrammar(SubSeq(s, 1, Len(s) - 1))

validate_repository_name(repo) ==
  IF repo = None \/ repo = <<>> THEN Raise("ValidationError")
  ELSE LET r == Strip(repo) IN
    IF Len(r) > MAX_REPO_LENGTH THEN Raise("ValidationError")
    ELSE IF ~GITHUB_REPO_PATTERN(r) THEN Raise("ValidationError")
    ELSE IF HasDangerousPattern(r) THEN Raise("ValidationError")
    ELSE Return(r)

\* validate_and_log_error(f, ...): a ValidationError becomes sys.exit(1)
validate_and_log_error(outcome) ==
  IF outcome.kind = "raise" THEN Exit("1") ELSE outcome

(***************************************************************************)
(* urllib.parse.urlparse as used by validate_url / validate_network_url    *)
(***************************************************************************)
\* index of the first position >= i whose character is in the set
\* (Len(s) + 1 when there is none)
RECURSIVE Find(_, _, _)
Find(s, i, set) ==
  IF i > Len(s) THEN Len(s) + 1
  ELSE IF s[i] \in set THEN i
  ELSE Find(s, i + 1, set)

\* index of the last position <= i whose character is in the set (0: none)
RECURSIVE FindLast(_, _, _)
FindLast(s, i, set) ==
  IF i < 1 THEN 0
  ELSE IF s[i] \in set THEN i
  ELSE FindLast(s, i - 1, set)

IsUnsafeUrlChar(c) == c \in {"\t", "\r", "\n"}
IsSafeUrlChar(c) == ~IsUnsafeUrlChar(c)
SchemeChars == AlnumChars \cup {"+", "-", "."}

\* urlsplit: [scheme, netloc] of the url, tab and newline characters removed
UrlSplit(url) ==
  LET u == SelectSeq(url, IsSafeUrlChar)
      i == Find(u, 1, {":"})
      hasScheme == /\ i > 1
                   /\ i <= Len(u)
                   /\ u[1] \in LowerChars \cup UpperChars
                   /\ \A k \in 1..(i - 1) : u[k] \in SchemeChars
      rest == IF hasScheme THEN SubSeq(u, i + 1, Len(u)) ELSE u
  IN  [scheme |-> IF hasScheme THEN Lower(SubSeq(u, 1, i - 1)) ELSE <<>>,
       netloc |-> IF StartsWith(rest, <<"/","/">>)
                    THEN SubSeq(rest, 3, Find(rest, 3, {"/", "?", "#"}) - 1)
                    ELSE <<>>]

\* urlparse raises ValueError("Invalid IPv6 URL")
UrlParseFails(url) ==
  LET netloc == UrlSplit(url).netloc
  IN  Contains(netloc, <<"[">>) # Contains(netloc, <<"]">>)

\* urlparse(url).hostname (<<>> models None)
UrlHostname(url) ==
  LET netloc == UrlSplit(url).netloc
      hostinfo == SubSeq(netloc, FindLast(netloc, Len(netloc), {"@"}) + 1,
                         Len(netloc))
  IN  IF StartsWith(hostinfo, <<"[">>)
        THEN Lower(SubSeq(hostinfo, 2, Find(hostinfo, 1, {"]"}) - 1))
        ELSE Lower(SubSeq(hostinfo, 1, Find(hostinfo, 1, {":"}) - 1))

HTTPS == <<"h","t","t","p","s">>

\* InputValidator.validate_url(url, allowed_schemes)
validate_url(url, allowed_schemes) ==
  IF url = None \/ url = <<>> THEN Raise("ValidationError")
  ELSE LET u == Strip(url) IN
    IF UrlParseFails(u) THEN Raise("ValidationError")
    ELSE IF UrlSplit(u).scheme \notin allowed_schemes
      THEN Raise("ValidationError")
    ELSE IF HasDangerousPattern(u) THEN Raise("ValidationError")
    ELSE Return(u)

\* allowed_domains of InputValidator.validate_network_url
ALLOWED_DOMAINS ==
  { <<"g","i","t","h","u","b",".","c","o","m">>,
    <<"a","p","i",".","g","i","t","h","u","b",".","c","o","m">>,
    <<"r","a","w",".","g","i","t","h","u","b","u","s","e","r","c","o","n","t","e","n","t",".","c","o","m">>,
    <<"c","o","d","e","l","o","a","d",".","g","i","t","h","u","b",".","c","o","m">> }

\* validate_network_url with a substring test of the URL for the host test
validate_network_url_HostContained(url) ==
  LET v == validate_url(url, {HTTPS}) IN
  IF v.kind = "raise" THEN v
  ELSE IF \A d \in ALLOWED_DOMAINS : ~Contains(v.val, d)
    THEN Raise("ValidationError")
  ELSE v

\* InputValidator.validate_network_url(url)
validate_network_url(url) ==
  LET v == validate_url(url, {HTTPS}) IN
  IF v.kind = "raise" THEN v
  ELSE IF UrlHostname(v.val) \notin ALLOWED_DOMAINS
    THEN Raise("ValidationError")
  ELSE v

MAX_CONTENT_LENGTH == 1048576

(***************************************************************************)
(* State.  pc is the position of the running call, result its outcome;     *)
(* spawned lists the processes started so far (subprocess.run calls) and   *)
(* logs the messages handed to log_info / log_warn / log_error, in order.  *)
(***************************************************************************)
VARIABLES
  \* entry is the public function that was called
  pc, result, spawned, logs, entry,
  \* get_current_repo / validate_repo / get_repo_for_command
  args_repo, args_sample_data, GITHUB_REPOSITORY, gh_view, git_remote,
  detected,
  \* safe_run(args, timeout=, check=, log_command=, shell=...)
  run_args, run_timeout, run_check, run_log_command, run_shell,
  \* run_env is the env= keyword the caller put into **kwargs and run_proc
  \* what the spawned process does
  run_env, run_proc,
  \* check_command_availability(cca_command)
  cca_command,
  \* download_workflow_content(download_url); net is what the network does
  \* and connections lists the requests handed to urlopen
  download_url, net, connections,
  \* cmd_analyze: the workflow listing, the loop position and the results
  workflows, wf_index, results,
  \* run_gh_command(gh_args, check=gh_check); gh_which is what
  \* shutil.which("gh") yields and wf_repo the argument of get_workflows
  gh_args, gh_check, gh_which, wf_repo,
  \* format_output(data, out_format, output_file): io_fail is the file-system
  \* call that fails, dir_exists whether the directory of the file exists
  \* and parent_exists whether the directory above that one exists,
  \* fs_ops the file-system calls made and printed what went to stdout
  output_file, out_format, io_fail, dir_exists, parent_exists, fs_ops,
  printed,
  \* validate_repository_name(val_input) and
  \* validate_file_path(val_input, val_allow_absolute) called on their own;
  \* val_schemes is the allowed_schemes argument of validate_url, val_again
  \* the outcome of applying the function to its own result, and val_data
  \* the argument of sanitize_dict; val_max_size is the max_size argument
  \* of validate_yaml_content and yaml_loaded the texts handed to
  \* yaml.safe_load
  val_input, val_allow_absolute, val_schemes, val_again, val_data,
  val_max_size, yaml_loaded

sharedVars == <<pc, result, spawned, logs, entry>>
repoVars == <<args_repo, args_sample_data, GITHUB_REPOSITORY, gh_view,
              git_remote, detected>>
runVars == <<run_args, run_timeout, run_check, run_log_command, run_shell,
             run_env, run_proc, cca_command>>
dlVars == <<download_url, net, connections>>
anVars == <<workflows, wf_index, results>>
ghVars == <<gh_args, gh_check, gh_which, wf_repo>>
outVars == <<output_file, out_format, io_fail, dir_exists, parent_exists,
             fs_ops, printed>>
valVars == <<val_input, val_allow_absolute, val_schemes, val_again, val_data,
             val_max_size, yaml_loaded>>
notRepoVars == <<runVars, dlVars, anVars, ghVars, outVars, valVars>>
notRunVars == <<repoVars, dlVars, anVars, ghVars, outVars, valVars>>
notDlVars == <<repoVars, runVars, anVars, ghVars, outVars, valVars>>
notAnVars == <<repoVars, runVars, download_url, net, ghVars, outVars, valVars>>
notGhVars == <<repoVars, runVars, dlVars, anVars, outVars, valVars>>
notOutVars == <<repoVars, runVars, dlVars, anVars, ghVars, valVars>>
notValVars == <<repoVars, runVars, dlVars, anVars, ghVars, outVars>>
vars == <<sharedVars, repoVars, runVars, dlVars, anVars, ghVars, outVars,
          valVars>>

\* the minimal environments handed to subprocess.run
ENV_FULL == {"PATH", "HOME", "XDG_CONFIG_HOME"}
ENV_PATH == {"PATH"}

\* the variables of the parent process environment
PARENT_ENV == {"PATH", "HOME", "XDG_CONFIG_HOME", "GITHUB_TOKEN"}

\* one subprocess.run call
Spawn(argv, timeout, env, shell) ==
  [argv |-> argv, timeout |-> timeout, env |-> env, shell |-> shell]
\* one log_info / log_warn / log_error call: raw lists the untrusted texts
\* (arguments, stderr, detected names) the message is built from and text
\* what was interpolated for each of them
Log(level, template, raw, text) ==
  [level |-> level, template |-> template, raw |-> raw, text |-> text]

\* names of the external programs
GH == <<"g","h">>
GIT == <<"g","i","t">>
JQ == <<"j","q">>

RepoIdle ==
  /\ args_repo = None
  /\ args_sample_data = FALSE
  /\ GITHUB_REPOSITORY = None
  /\ gh_view = [exc |-> "CalledProcessError", json |-> "invalid",
                field |-> "missing", name |-> <<>>]
  /\ git_remote = [exc |-> "CalledProcessError", stdout |-> <<>>]
  /\ detected = Pending

RunIdle ==
  /\ run_args = <<>>
  /\ run_timeout = 0
  /\ run_check = TRUE
  /\ run_log_command = TRUE
  /\ run_shell = "absent"
  /\ run_env = [given |-> FALSE, names |-> {}]
  /\ run_proc = [exc |-> "none", returncode |-> 0, stderr |-> <<>>]
  /\ cca_command = None

DlIdle ==
  /\ download_url = None
  /\ net = [exc |-> "URLError", content_type |-> <<>>, utf8 |-> TRUE,
            text |-> <<>>, chars |-> 0]
  /\ connections = <<>>

AnIdle ==
  /\ workflows = <<>>
  /\ wf_index = 1
  /\ results = <<>>

GhIdle ==
  /\ gh_args = <<>>
  /\ gh_check = TRUE
  /\ gh_which = None
  /\ wf_repo = None

\* Python values: t is the type, v the characters of a str, the items of a
\* list or tuple, the (key, value) pairs of a dict in insertion order
PyStr(chars) == [t |-> "str", v |-> chars]
PyInt == [t |-> "int", v |-> <<>>]
PyNone == [t |-> "NoneType", v |-> <<>>]
PyList(items) == [t |-> "list", v |-> items]
PyTuple(items) == [t |-> "tuple", v |-> items]
PyDict(pairs) == [t |-> "dict", v |-> pairs]
PyItem(key, value) == [k |-> key, val |-> value]

ValIdle ==
  /\ val_input = None
  /\ val_again = [kind |-> "pending", val |-> <<>>]
  /\ val_max_size = 0
  /\ yaml_loaded = <<>>
  /\ val_data = PyNone
  /\ val_allow_absolute = FALSE
  /\ val_schemes = [given |-> FALSE, schemes |-> {}]

OutIdle ==
  /\ output_file = None
  /\ out_format = "table"
  /\ io_fail = "none"
  /\ dir_exists = TRUE
  /\ parent_exists = TRUE
  /\ fs_ops = <<>>
  /\ printed = <<>>

(***************************************************************************)
(* shared/github.py: get_current_repo, validate_repo, get_repo_for_command *)
(***************************************************************************)
SAMPLE_REPO == <<"s","a","m","p","l","e","/","r","e","p","o">>
MAX_REMOTE_URL == 2048

\* a remote URL longer than the limit of 2048 characters
LongRemoteUrl ==
  <<"h","t","t","p","s",":","/","/","g","i","t","h","u","b",".","c","o","m","/">> \o [i \in 1..2040 |-> "a"]
    \o <<"/","r">>

\* values of the GITHUB_REPOSITORY environment variable (None: unset)
EnvRepos ==
  { None, <<>>,
    <<"e","/","r">>,
    <<".",".","/","e","v","i","l">>,
    <<"o","s",".","s","y","s","t","e","m","/","r">> }

\* --repo values given on the command line (None: not given)
ArgRepos ==
  { None, <<>>,
    <<" ","a","/","r"," ">>,
    <<"a","/","r",";","x">>,
    <<"a","_","_","i","m","p","o","r","t","_","_","/","r">> }

\* what `gh repo view --json nameWithOwner` does: the exception raised by
\* subprocess.run, or the value json.loads(stdout) yields
GhFail(e) == [exc |-> e, json |-> "invalid", field |-> "missing", name |-> <<>>]
GhJson(j) == [exc |-> "none", json |-> j, field |-> "missing", name |-> <<>>]
GhObject(f, n) == [exc |-> "none", json |-> "object", field |-> f, name |-> n]
GhOutcomes ==
  { GhFail("CalledProcessError"), GhFail("TimeoutExpired"),
    GhFail("FileNotFoundError"),
    GhJson("invalid"), GhJson("array"), GhJson("null"), GhJson("string"),
    GhObject("missing", <<>>), GhObject("null", <<>>),
    GhObject("number", <<>>), GhObject("string", <<>>),
    GhObject("string", <<"g","/","r">>),
    GhObject("string", <<"g","/","r","/","x">>) }

\* what `git remote get-url origin` does
GitFail(e) == [exc |-> e, stdout |-> <<>>]
GitOk(out) == [exc |-> "none", stdout |-> out]
GitOutcomes ==
  { GitFail("CalledProcessError"), GitFail("TimeoutExpired"),
    GitFail("FileNotFoundError"),
    GitOk(<<>>),
    GitOk(<<"h","t","t","p","s",":","/","/","g","i","t","h","u","b",".","c","o","m","/","a","c","m","e","/","w",".","g","i","t","\n">>),
    GitOk(<<"g","i","t","@","g","i","t","h","u","b",".","c","o","m",":","a","c","m","e","/","w",".","g","i","t">>),
    GitOk(<<"h","t","t","p","s",":","/","/","g","i","t","l","a","b",".","c","o","m","/","a","c","m","e","/","w">>),
    GitOk(<<"h","t","t","p","s",":","/","/","g","i","t","h","u","b",".","c","o","m","/","a"," ","b","/","w">>),
    GitOk(<<"h","t","t","p","s",":","/","/","g","i","t","h","u","b",".","c","o","m">>),
    GitOk(<<"h","t","t","p","s",":","/","/","g","i","t","h","u","b",".","c","o","m","/","r","e","p","o",".","g","i","t">>),
    GitOk(LongRemoteUrl) }

Entries == {"get_current_repo", "validate_repo", "get_repo_for_command"}

\* str.split("/")[-2:] : the last two "/"-delimited fields (fewer when the
\* string has no "/")
SlashPositions(s) == {i \in 1..Len(s) : s[i] = "/"}
LastTwoParts(s) ==
  LET sl == SlashPositions(s) IN
  IF sl = {} THEN <<s>>
  ELSE LET last == SetMax(sl)
           before == sl \ {last}
           from == IF before = {} THEN 1 ELSE SetMax(before) + 1
       IN  <<SubSeq(s, from, last - 1), SubSeq(s, last + 1, Len(s))>>

\* RepoFromRemote without the validation of line 84
RepoFromRemote_Unvalidated(stdout) ==
  LET remote_url == Strip(stdout) IN
  IF remote_url = <<>> \/ Len(remote_url) > 2048 THEN Return(None)
  ELSE IF ~Contains(remote_url, <<"g","i","t","h","u","b",".","c","o","m">>)
    THEN Return(None)
  ELSE
    LET url == IF EndsWith(remote_url, <<".","g","i","t">>)
                 THEN SubSeq(remote_url, 1, Len(remote_url) - 4)
                 ELSE remote_url
        parts == LastTwoParts(url)
    IN  IF Len(parts) = 2 /\ parts[1] # <<>> /\ parts[2] # <<>>
          THEN Return(parts[1] \o <<"/">> \o parts[2])
          ELSE Return(None)

\* github.py lines 69-89: the owner/repo taken from the remote URL, or None
RepoFromRemote(stdout) ==
  LET remote_url == Strip(stdout) IN
  IF remote_url = <<>> \/ Len(remote_url) > MAX_REMOTE_URL THEN Return(None)
  ELSE IF ~Contains(remote_url, <<"g","i","t","h","u","b",".","c","o","m">>) THEN Return(None)
  ELSE
    LET url == IF EndsWith(remote_url, <<".","g","i","t">>)
                 THEN SubSeq(remote_url, 1, Len(remote_url) - 4)
                 ELSE remote_url
        parts == LastTwoParts(url)
    IN  IF Len(parts) = 2 /\ parts[1] # <<>> /\ parts[2] # <<>>
          THEN LET v == validate_repository_name(parts[1] \o <<"/">> \o parts[2])
               IN  IF v.kind = "return" THEN v ELSE Return(None)
          ELSE Return(None)

InitRepo ==
  /\ pc = "call"
  /\ result = Pending
  /\ spawned = <<>>
  /\ logs = <<>>
  /\ entry \in Entries
  /\ args_repo \in ArgRepos
  /\ args_sample_data \in BOOLEAN
  /\ (entry = "get_current_repo" => args_repo = None /\ ~args_sample_data)
  /\ (entry = "validate_repo" => ~args_sample_data)
  /\ GITHUB_REPOSITORY \in EnvRepos
  /\ gh_view \in GhOutcomes
  /\ git_remote \in GitOutcomes
  /\ detected = Pending
  /\ RunIdle
  /\ DlIdle
  /\ AnIdle
  /\ GhIdle
  /\ OutIdle
  /\ ValIdle

\* (variant of GetRepoForCommand) without the sample-data shortcut
GetRepoForCommand_NoSampleShortcut ==
  /\ pc = "call"
  /\ entry = "get_repo_for_command"
  /\ IF args_repo # None /\ args_repo # <<>>
       THEN /\ pc' = "validate"
            /\ detected' = Return(args_repo)
            /\ UNCHANGED result
       ELSE /\ pc' = "env"
            /\ UNCHANGED <<result, detected>>
  /\ UNCHANGED <<spawned, logs, entry, args_repo, args_sample_data,
                 GITHUB_REPOSITORY, gh_view, git_remote, notRepoVars>>

\* get_repo_for_command, lines 116-124
GetRepoForCommand ==
  /\ pc = "call"
  /\ entry = "get_repo_for_command"
  /\ IF args_sample_data
       THEN /\ pc' = "done"
            /\ result' = Return(SAMPLE_REPO)
            /\ UNCHANGED detected
       ELSE IF args_repo # None /\ args_repo # <<>>
         THEN /\ pc' = "validate"
              /\ detected' = Return(args_repo)
              /\ UNCHANGED result
         ELSE /\ pc' = "env"
              /\ UNCHANGED <<result, detected>>
  /\ UNCHANGED <<spawned, logs, entry, args_repo, args_sample_data,
                 GITHUB_REPOSITORY, gh_view, git_remote, notRepoVars>>

\* validate_repo, lines 98-99
ValidateRepoCall ==
  /\ pc = "call"
  /\ entry = "validate_repo"
  /\ IF args_repo # None /\ args_repo # <<>>
       THEN pc' = "validate" /\ detected' = Return(args_repo)
       ELSE pc' = "env" /\ UNCHANGED detected
  /\ UNCHANGED <<result, spawned, logs, entry, args_repo, args_sample_data,
                 GITHUB_REPOSITORY, gh_view, git_remote, notRepoVars>>

\* a direct call of get_current_repo
GetCurrentRepoCall ==
  /\ pc = "call"
  /\ entry = "get_current_repo"
  /\ pc' = "env"
  /\ UNCHANGED <<result, spawned, logs, entry, repoVars, notRepoVars>>

\* get_current_repo, lines 18-27: the GITHUB_REPOSITORY step
GetCurrentRepoEnv ==
  /\ pc = "env"
  /\ LET v == validate_repository_name(GITHUB_REPOSITORY) IN
     IF GITHUB_REPOSITORY # None /\ GITHUB_REPOSITORY # <<>>
        /\ v.kind = "return"
       THEN /\ detected' = v
            /\ logs' = Append(logs,
                 Log("info", "Using GitHub Actions repository: {}",
                                <<v.val>>, <<v.val>>))
            /\ pc' = "returned"
       ELSE /\ pc' = "gh"
            /\ UNCHANGED <<detected, logs>>
  /\ UNCHANGED <<result, spawned, entry, args_repo, args_sample_data,
                 GITHUB_REPOSITORY, gh_view, git_remote, notRepoVars>>

GhRepoViewArgv ==
  <<GH, <<"r","e","p","o">>, <<"v","i","e","w">>, <<"-","-","j","s","o","n">>,
    <<"n","a","m","e","W","i","t","h","O","w","n","e","r">>>>

\* get_current_repo, lines 31-42: subprocess.run(["gh", "repo", "view", ...])
GetCurrentRepoGhSpawn ==
  /\ pc = "gh"
  /\ spawned' = Append(spawned, Spawn(GhRepoViewArgv, 10, ENV_FULL, FALSE))
  /\ pc' = "gh_done"
  /\ UNCHANGED <<result, logs, entry, repoVars, notRepoVars>>

\* the gh step going on to git whatever gh answered
GetCurrentRepoGhResult_FallsThrough ==
  /\ pc = "gh_done"
  /\ pc' = "git"
  /\ UNCHANGED <<result, spawned, logs, entry, repoVars, notRepoVars>>

\* get_current_repo, lines 43-57: the outcome of the gh step
GetCurrentRepoGhResult ==
  /\ pc = "gh_done"
  /\ IF gh_view.exc # "none" \/ gh_view.json = "invalid"
       THEN \* CalledProcessError, TimeoutExpired, FileNotFoundError and
            \* JSONDecodeError are caught
            pc' = "git" /\ UNCHANGED <<detected, logs>>
       ELSE IF gh_view.json # "object"
         THEN \* repo_info.get on a list, str, number or None
              /\ detected' = Raise("AttributeError")
              /\ pc' = "returned"
              /\ UNCHANGED logs
         ELSE IF gh_view.field = "string" /\ gh_view.name # <<>>
           THEN LET v == validate_repository_name(gh_view.name) IN
                IF v.kind = "return"
                  THEN /\ detected' = v
                       /\ logs' = Append(logs,
                            Log("info", "Using gh CLI detected repository: {}",
                                <<v.val>>, <<v.val>>))
                       /\ pc' = "returned"
                  ELSE pc' = "git" /\ UNCHANGED <<detected, logs>>
           ELSE pc' = "git" /\ UNCHANGED <<detected, logs>>
  /\ UNCHANGED <<result, spawned, entry, args_repo, args_sample_data,
                 GITHUB_REPOSITORY, gh_view, git_remote, notRepoVars>>

GitRemoteArgv ==
  <<GIT, <<"r","e","m","o","t","e">>, <<"g","e","t","-","u","r","l">>,
    <<"o","r","i","g","i","n">>>>

\* get_current_repo, lines 61-68: subprocess.run(["git", "remote", ...])
GetCurrentRepoGitSpawn ==
  /\ pc = "git"
  /\ spawned' = Append(spawned, Spawn(GitRemoteArgv, 10, ENV_PATH, FALSE))
  /\ pc' = "git_done"
  /\ UNCHANGED <<result, logs, entry, repoVars, notRepoVars>>

\* get_current_repo, lines 69-93: the outcome of the git step
GetCurrentRepoGitResult ==
  /\ pc = "git_done"
  /\ pc' = "returned"
  /\ IF git_remote.exc = "FileNotFoundError"
       THEN \* not among the exceptions of line 90
            detected' = Raise("FileNotFoundError") /\ UNCHANGED logs
       ELSE IF git_remote.exc # "none"
         THEN detected' = Return(None) /\ UNCHANGED logs
         ELSE LET v == RepoFromRemote(git_remote.stdout) IN
              /\ detected' = v
              /\ logs' = IF v.val # None
                   THEN Append(logs,
                     Log("info", "Using git remote detected repository: {}",
                                <<v.val>>, <<v.val>>))
                   ELSE logs
  /\ UNCHANGED <<result, spawned, entry, args_repo, args_sample_data,
                 GITHUB_REPOSITORY, gh_view, git_remote, notRepoVars>>

\* get_current_repo hands its outcome to the caller: validate_repo lines
\* 99-107, get_repo_for_command lines 124-133
GetCurrentRepoReturn ==
  /\ pc = "returned"
  /\ IF entry = "get_current_repo" \/ detected.kind = "raise"
       THEN pc' = "done" /\ result' = detected /\ UNCHANGED logs
       ELSE IF detected.val = None
         THEN /\ pc' = "done"
              /\ result' = Exit("1")
              /\ logs' = Append(logs,
                   Log("error",
                       "No repository specified and unable to detect current repository",
                       <<>>, <<>>))
         ELSE /\ pc' = "validate"
              /\ logs' = IF entry = "validate_repo"
                   THEN Append(logs,
                     Log("info", "Using current repository: {}",
                                <<detected.val>>, <<detected.val>>))
                   ELSE logs
              /\ UNCHANGED result
  /\ UNCHANGED <<spawned, entry, repoVars, notRepoVars>>

\* validate_repo, lines 110-111
ValidateRepo ==
  /\ pc = "validate"
  /\ pc' = "done"
  /\ result' = validate_and_log_error(validate_repository_name(detected.val))
  /\ logs' = IF validate_repository_name(detected.val).kind = "raise"
       THEN Append(logs, Log("error", "Validation error: {}", <<>>, <<>>))
       ELSE logs
  /\ UNCHANGED <<spawned, entry, repoVars, notRepoVars>>

NextRepo ==
  \/ GetRepoForCommand
  \/ ValidateRepoCall
  \/ GetCurrentRepoCall
  \/ GetCurrentRepoEnv
  \/ GetCurrentRepoGhSpawn
  \/ GetCurrentRepoGhResult
  \/ GetCurrentRepoGitSpawn
  \/ GetCurrentRepoGitResult
  \/ GetCurrentRepoReturn
  \/ ValidateRepo

SpecRepo == InitRepo /\ [][NextRepo]_vars

\* the programs started so far, in order
Commands == [i \in 1..Len(spawned) |-> spawned[i].argv[1]]

\* the GITHUB_REPOSITORY step yields a valid name
EnvYieldsName ==
  /\ GITHUB_REPOSITORY \notin {None, <<>>}
  /\ validate_repository_name(GITHUB_REPOSITORY).kind = "return"
\* the gh step yields a valid name
GhYieldsName ==
  /\ gh_view.exc = "none"
  /\ gh_view.json = "object"
  /\ gh_view.field = "string"
  /\ gh_view.name # <<>>
  /\ validate_repository_name(gh_view.name).kind = "return"

\* C2: get_current_repo tries GITHUB_REPOSITORY, then gh, then git, in that
\* order; gh is spawned only if the environment variable yielded no valid
\* name and git only if gh yielded none either; a valid GITHUB_REPOSITORY is
\* returned with no process spawned and a valid gh answer with only gh spawned.
C2_FallbackOrder ==
  /\ Commands \in {<<>>, <<GH>>, <<GH, GIT>>}
  /\ (Len(spawned) >= 1 => ~EnvYieldsName)
  /\ (Len(spawned) >= 2 => ~GhYieldsName)
  /\ (pc = "returned" /\ EnvYieldsName =>
        /\ spawned = <<>>
        /\ detected = Return(Strip(GITHUB_REPOSITORY)))
  /\ (pc = "returned" /\ ~EnvYieldsName /\ GhYieldsName =>
        /\ Commands = <<GH>>
        /\ detected = Return(Strip(gh_view.name)))
C2_Witness ==
  /\ pc = "returned"
  /\ Commands = <<GH, GIT>>
  /\ GITHUB_REPOSITORY # None
  /\ detected.kind = "return"
  /\ detected.val # None

C9_GetCurrentRepoNeverRaises ==
  pc = "returned" => detected.kind = "return"

\* C16: without sample data and without --repo, when get_current_repo
\* returns None, get_repo_for_command and validate_repo end the process with
\* exit status 1; with sample data get_repo_for_command returns sample/repo
\* without any detection step and without spawning a process.
C16_ResolutionExhaustionExits ==
  /\ (/\ pc = "done"
      /\ entry \in {"get_repo_for_command", "validate_repo"}
      /\ ~args_sample_data
      /\ args_repo \in {None, <<>>}
      /\ detected = Return(None)
      => result = Exit("1"))
  /\ (entry = "get_repo_for_command" /\ args_sample_data =>
        /\ spawned = <<>>
        /\ detected = Pending
        /\ pc \in {"call", "done"}
        /\ (pc = "done" => result = Return(SAMPLE_REPO)))

C16_Witness ==
  /\ pc = "done"
  /\ entry = "get_repo_for_command"
  /\ ~args_sample_data
  /\ args_repo = None
  /\ detected = Return(None)
  /\ Len(spawned) = 2
  /\ result = Exit("1")

(***************************************************************************)
(* shared/subprocess.py: sanitize_for_logging                              *)
(***************************************************************************)
REDACTED == <<"[","R","E","D","A","C","T","E","D","]">>

\* [=:\s]
SepChars == {"=", ":"} \cup WhitespaceChars
\* [a-zA-Z0-9_-] and [a-zA-Z0-9_/-]
TokenChars == AlnumChars \cup {"_", "-"}
KeyChars == AlnumChars \cup {"_", "/", "-"}

\* index of the first whitespace character at or after i (Len(s) + 1 when
\* there is none): a greedy \S* from i
RECURSIVE NonSpaceEnd(_, _)
NonSpaceEnd(s, i) ==
  IF i > Len(s) THEN Len(s) + 1
  ELSE IF s[i] \in WhitespaceChars THEN i
  ELSE NonSpaceEnd(s, i + 1)

\* <word>[=:\s]+<cls>+ (IGNORECASE) matched at i: the index of the last
\* character of the match, 0 when there is no match at i
WordSepClassEnd(s, i, word, cls) ==
  IF ~MatchAt(Lower(s), i, word) THEN 0
  ELSE LET j == i + Len(word)
           e1 == RunEnd(s, j, SepChars)
           e2 == RunEnd(s, e1, cls)
       IN  IF e1 > j /\ e2 > e1 THEN e2 - 1 ELSE 0

\* <word>[=:\s]+\S+ (IGNORECASE) matched at i; when the separator run reaches
\* the end of the text the regex backtracks and \S+ takes the run's last
\* '=' or ':' that is not its first character
WordSepNonSpaceEnd(s, i, word) ==
  IF ~MatchAt(Lower(s), i, word) THEN 0
  ELSE LET j == i + Len(word)
           e1 == RunEnd(s, j, SepChars)
       IN  IF e1 = j THEN 0
           ELSE IF e1 <= Len(s) THEN NonSpaceEnd(s, e1) - 1
           ELSE LET k == RunStart(s, Len(s), WhitespaceChars)
                IN  IF k > j THEN k ELSE 0

\* gh[psu]_[a-zA-Z0-9_-]+ (IGNORECASE) matched at i
GhTokenEnd(s, i) ==
  IF /\ MatchAt(Lower(s), i, <<"g","h">>)
     /\ i + 3 <= Len(s)
     /\ ToLower(s[i + 2]) \in {"p", "s", "u"}
     /\ s[i + 3] = "_"
    THEN LET e == RunEnd(s, i + 4, TokenChars)
         IN  IF e > i + 4 THEN e - 1 ELSE 0
    ELSE 0

\* SENSITIVE_PATTERNS[n] matched at i
SensitiveMatchEnd(s, i, n) ==
  CASE n = 1 -> WordSepClassEnd(s, i, <<"t","o","k","e","n">>, TokenChars)
    [] n = 2 -> GhTokenEnd(s, i)
    [] n = 3 -> WordSepNonSpaceEnd(s, i, <<"p","a","s","s","w","o","r","d">>)
    [] n = 4 -> WordSepNonSpaceEnd(s, i, <<"s","e","c","r","e","t">>)
    [] n = 5 -> WordSepClassEnd(s, i, <<"k","e","y">>, KeyChars)

\* pattern.sub("[REDACTED]", s) from position i on: leftmost matches, not
\* overlapping
RECURSIVE SubFrom(_, _, _)
SubFrom(s, i, n) ==
  IF i > Len(s) THEN <<>>
  ELSE LET e == SensitiveMatchEnd(s, i, n)
       IN  IF e >= i THEN REDACTED \o SubFrom(s, e + 1, n)
           ELSE <<s[i]>> \o SubFrom(s, i + 1, n)

sanitize_for_logging(text) ==
  IF text = <<>> THEN text
  ELSE SubFrom(SubFrom(SubFrom(SubFrom(SubFrom(text, 1, 1), 1, 2), 1, 3), 1, 4),
               1, 5)

(***************************************************************************)
(* shared/subprocess.py: validate_command, validate_arguments, safe_run    *)
(***************************************************************************)
ALLOWED_COMMANDS == {GH, GIT, JQ}
MAX_ARG_LENGTH == 4096
DEFAULT_TIMEOUT == 120
\* timeout=None
NO_TIMEOUT == 0

\* a Python value that is not a str
IntFive == <<"<int 5>">>
IsStr(x) == x \notin {None, IntFive}

\* the backquote character (the parser accepts no backquote in a string)
BACKQUOTE == "<backquote>"

SHELL_CHARS ==
  {";", "|", "&", "$", BACKQUOTE, "(", ")", "{", "}", "[", "]", "<", ">", "*", "?", "~"}
HasShellChar(arg) == \E i \in 1..Len(arg) : arg[i] \in SHELL_CHARS

\* re.match(r"^<cls>+/<cls>+$", arg)
MatchesOwnerRepoShape(arg) ==
  LET cls == AlnumChars \cup {".", "_", "-"}
      body == IF Len(arg) > 0 /\ arg[Len(arg)] = "\n"
                THEN {arg, SubSeq(arg, 1, Len(arg) - 1)} ELSE {arg}
  IN  \E b \in body : \E k \in 2..(Len(b) - 1) :
        /\ b[k] = "/"
        /\ \A i \in 1..Len(b) : i # k => b[i] \in cls

\* re.match(r"^[a-zA-Z0-9._/-]+$", arg)
MatchesPathShape(arg) ==
  LET cls == AlnumChars \cup {".", "_", "/", "-"}
      n == IF Len(arg) > 0 /\ arg[Len(arg)] = "\n" THEN Len(arg) - 1
           ELSE Len(arg)
  IN  n >= 1 /\ \A i \in 1..n : arg[i] \in cls

API == <<"a","p","i">>

_is_safe_shell_char_context(arg, index, args) ==
  \/ Contains(arg, <<"/">>) /\ MatchesOwnerRepoShape(arg)
  \/ /\ index > 0
     /\ args[1] = GH
     /\ \E k \in 1..Len(args) : args[k] = API
     /\ Contains(arg, <<"/">>)
  \/ Contains(arg, <<".">>) /\ MatchesPathShape(arg)

\* validate_command without the allow-list test of line 77
validate_command_NoAllowList(command) ==
  IF command = None \/ command = <<>> THEN "SubprocessSecurityError"
  ELSE "none"

\* validate_command(command): the exception raised, or "none"
validate_command(command) ==
  IF command = None \/ command = <<>> THEN "SubprocessSecurityError"
  ELSE IF command \notin ALLOWED_COMMANDS THEN "SubprocessSecurityError"
  ELSE "none"

\* validate_arguments, lines 92-108: the exception raised, or "none"
ValidateArgumentsError(args) ==
  IF args = <<>> THEN "SubprocessSecurityError"
  ELSE IF validate_command(args[1]) # "none" THEN validate_command(args[1])
  ELSE IF \E i \in 1..Len(args) : ~IsStr(args[i]) \/ Len(args[i]) > MAX_ARG_LENGTH
    THEN "SubprocessSecurityError"
  ELSE "none"

\* validate_arguments, lines 110-116: the warnings logged, in argument order;
\* index is the 0-based position used by the source
RECURSIVE ValidateArgumentsWarnings(_, _)
ValidateArgumentsWarnings(args, i) ==
  IF i > Len(args) THEN <<>>
  ELSE (IF HasShellChar(args[i])
           /\ ~_is_safe_shell_char_context(args[i], i - 1, args)
          THEN <<Log("warn", "Argument {i} contains shell metacharacters: {}",
                     <<args[i]>>, <<args[i]>>)>>
          ELSE <<>>)
       \o ValidateArgumentsWarnings(args, i + 1)

\* an argument longer than MAX_ARG_LENGTH
LongArg == [i \in 1..(MAX_ARG_LENGTH + 1) |-> "a"]

\* the longest argument list drawn
MaxArgs == 3

FirstArgs == {GH, JQ, <<"c","u","r","l">>, <<>>, IntFive}
RestArgs ==
  { API, <<"o","/","r",";","x">>, <<"k","e","y","=","v","$","x">>, IntFive, LongArg }

RECURSIVE SeqsUpTo(_, _)
SeqsUpTo(S, n) ==
  IF n <= 0 THEN {<<>>}
  ELSE LET shorter == SeqsUpTo(S, n - 1)
       IN  shorter \cup {Append(q, x) : q \in shorter, x \in S}

ArgLists ==
  {<<>>} \cup {<<f>> \o r : f \in FirstArgs, r \in SeqsUpTo(RestArgs, MaxArgs - 1)}

\* what the spawned process does: exc is the exception subprocess.run raises
\* by itself ("none": the process ran to its end)
ProcOutcomes ==
  { [exc |-> "none", returncode |-> 0, stderr |-> <<>>],
    [exc |-> "none", returncode |-> 1, stderr |-> <<>>],
    [exc |-> "none", returncode |-> 1, stderr |-> <<"t","o","k","e","n",":"," ","a","b","c">>],
    [exc |-> "TimeoutExpired", returncode |-> 0, stderr |-> <<>>],
    [exc |-> "FileNotFoundError", returncode |-> 0, stderr |-> <<>>],
    [exc |-> "PermissionError", returncode |-> 0, stderr |-> <<>>] }

\* the env= keyword of the caller: not given, or a mapping with these names
CallerEnvs ==
  { [given |-> FALSE, names |-> {}],
    [given |-> TRUE, names |-> {"PATH", "AWS_SECRET_ACCESS_KEY"}] }

\* run_proc before subprocess.run is called
NotStarted == [exc |-> "none", returncode |-> 0, stderr |-> <<>>]

\* the functions of the module that run safe_run
SafeRunEntries == {"safe_run", "check_command_availability"}
\* where control goes when safe_run ends
AfterSafeRun == IF entry = "safe_run" THEN "done" ELSE "run_returned"

\* the environment of the child: subprocess.run gets env= only through
\* **kwargs, and without it the child inherits the parent's environment
ChildEnv == IF run_env.given THEN run_env.names ELSE PARENT_ENV

InitRun ==
  /\ pc = "call"
  /\ entry = "safe_run"
  /\ result = Pending
  /\ spawned = <<>>
  /\ logs = <<>>
  /\ run_args \in ArgLists
  /\ run_timeout \in {NO_TIMEOUT, 5}
  /\ run_check \in BOOLEAN
  /\ run_log_command \in BOOLEAN
  /\ run_shell \in {"absent", "True"}
  /\ run_env \in CallerEnvs
  /\ run_proc = NotStarted
  /\ cca_command = None
  /\ RepoIdle
  /\ DlIdle
  /\ AnIdle
  /\ GhIdle
  /\ OutIdle
  /\ ValIdle

\* (variant of EffectiveTimeout) the caller's value is handed on as it is
EffectiveTimeout_CallerOnly == run_timeout

\* the timeout handed to subprocess.run
EffectiveTimeout ==
  IF run_timeout = NO_TIMEOUT THEN DEFAULT_TIMEOUT ELSE run_timeout

\* safe_run, line 188: validate_arguments(args)
SafeRunValidate ==
  /\ pc = "call"
  /\ entry \in SafeRunEntries
  /\ IF ValidateArgumentsError(run_args) # "none"
       THEN /\ pc' = AfterSafeRun
            /\ result' = Raise(ValidateArgumentsError(run_args))
            /\ UNCHANGED logs
       ELSE /\ pc' = "validated"
            /\ logs' = logs \o ValidateArgumentsWarnings(run_args, 1)
            /\ UNCHANGED result
  /\ UNCHANGED <<spawned, entry, runVars, notRunVars>>

\* (variant of SafeRunSpawn) the caller's shell keyword is handed on
SafeRunSpawn_ShellFromCaller ==
  /\ pc = "validated"
  /\ logs' = IF run_log_command
       THEN Append(logs,
              Log("info", "Executing: {}", run_args,
                  [i \in 1..Len(run_args) |-> sanitize_for_logging(run_args[i])]))
       ELSE logs
  /\ spawned' = Append(spawned,
                  Spawn(run_args, EffectiveTimeout, ChildEnv,
                        run_shell = "True"))
  /\ run_proc' \in ProcOutcomes
  /\ pc' = "running"
  /\ UNCHANGED <<result, entry, run_args, run_timeout, run_check,
                 run_log_command, run_shell, run_env, cca_command,
                 notRunVars>>

\* safe_run, lines 190-205: default timeout, shell=False, the "Executing"
\* message, then subprocess.run
SafeRunSpawn ==
  /\ pc = "validated"
  /\ logs' = IF run_log_command
       THEN Append(logs,
              Log("info", "Executing: {}", run_args,
                  [i \in 1..Len(run_args) |-> sanitize_for_logging(run_args[i])]))
       ELSE logs
  /\ spawned' = Append(spawned,
                  Spawn(run_args, EffectiveTimeout, ChildEnv, FALSE))
  /\ run_proc' \in ProcOutcomes
  /\ pc' = "running"
  /\ UNCHANGED <<result, entry, run_args, run_timeout, run_check,
                 run_log_command, run_shell, run_env, cca_command,
                 notRunVars>>

\* safe_run, lines 214-230: the outcome of subprocess.run
SafeRunResult ==
  /\ pc = "running"
  /\ pc' = AfterSafeRun
  /\ LET proc == run_proc IN
       IF proc.exc = "TimeoutExpired"
         THEN /\ logs' = Append(logs,
                   Log("error", "Command timed out after {timeout}s: {}",
                       <<run_args[1]>>, <<run_args[1]>>))
              /\ result' = Raise("TimeoutExpired")
       ELSE IF proc.exc # "none"
         THEN /\ result' = Raise(proc.exc)
              /\ UNCHANGED logs
       ELSE IF run_check /\ proc.returncode # 0
         THEN /\ logs' = logs
                   \o <<Log("error", "Command failed with exit code {rc}: {}",
                            <<run_args[1]>>, <<run_args[1]>>)>>
                   \o (IF sanitize_for_logging(proc.stderr) # <<>>
                         THEN <<Log("error", "Error output: {}",
                                    <<proc.stderr>>,
                                    <<sanitize_for_logging(proc.stderr)>>)>>
                         ELSE <<>>)
              /\ result' = Raise("CalledProcessError")
       ELSE /\ logs' = Append(logs,
                 Log("info", "Command completed in {t}s", <<>>, <<>>))
            /\ result' = Return(<<"CompletedProcess">>)
  /\ UNCHANGED <<spawned, entry, runVars, notRunVars>>

NextRun ==
  \/ SafeRunValidate
  \/ SafeRunSpawn
  \/ SafeRunResult

SpecRun == InitRun /\ [][NextRun]_vars

\* C1: when the first element of the argument list is not gh, git or jq (or
\* the list is empty), safe_run raises SubprocessSecurityError and no process
\* is spawned during the call.
C1_DisallowedCommandNeverSpawns ==
  (run_args = <<>> \/ run_args[1] \notin {GH, GIT, JQ}) =>
    /\ spawned = <<>>
    /\ pc \in {"call", "done"}
    /\ (pc = "done" => result = Raise("SubprocessSecurityError"))
C1_Witness ==
  /\ pc = "done"
  /\ Len(run_args) >= 2
  /\ run_args[1] = <<"c","u","r","l">>
  /\ result = Raise("SubprocessSecurityError")

\* C10: every text that safe_run, validate_arguments or run_gh_command
\* interpolates into a logged message from an argument or from captured
\* stderr is the sanitizer's output for that argument or stderr.
C10_LoggedTextIsSanitized ==
  \A k \in 1..Len(logs) :
    /\ Len(logs[k].text) = Len(logs[k].raw)
    /\ \A j \in 1..Len(logs[k].raw) :
         logs[k].text[j] = sanitize_for_logging(logs[k].raw[j])

\* the SanitizedArgumentList invariant of an argument list
SanitizedArgumentList(args) ==
  /\ args # <<>>
  /\ args[1] \in {GH, GIT, JQ}
  /\ \A i \in 1..Len(args) :
       /\ IsStr(args[i])
       /\ Len(args[i]) <= 4096
       /\ (HasShellChar(args[i])
             => _is_safe_shell_char_context(args[i], i - 1, args))

\* C11: every argument list that safe_run hands to subprocess.run satisfies
\* SanitizedArgumentList: allowed command, strings of at most 4096
\* characters, and no shell metacharacter outside the safe contexts.
C11_SpawnedArgsAreSanitized ==
  \A k \in 1..Len(spawned) : SanitizedArgumentList(spawned[k].argv)

\* C12: every process safe_run spawns is spawned with shell disabled,
\* whatever keyword arguments the caller gave, shell=True included.
C12_ShellAlwaysDisabled ==
  \A k \in 1..Len(spawned) : spawned[k].shell = FALSE

C12_Witness ==
  /\ entry = "safe_run"
  /\ run_shell = "True"
  /\ spawned # <<>>
  /\ pc = "done"

\* C14: the environment of every spawned process has variable names within
\* PATH, HOME and XDG_CONFIG_HOME: nothing else of the parent environment
\* and no environment of the caller reaches the child.
C14_ChildEnvIsMinimal ==
  \A k \in 1..Len(spawned) :
    spawned[k].env \subseteq {"PATH", "HOME", "XDG_CONFIG_HOME"}

(***************************************************************************)
(* shared/subprocess.py: check_command_availability                        *)
(***************************************************************************)
AVAILABILITY_TIMEOUT == 10
VERSION_FLAG == <<"-","-","v","e","r","s","i","o","n">>
AvailCommands ==
  { GH, GIT, JQ, <<"c","u","r","l">>, <<"G","H">>, <<>>, None, IntFive }

InitAvail ==
  /\ pc = "cca_call"
  /\ entry = "check_command_availability"
  /\ result = Pending
  /\ spawned = <<>>
  /\ logs = <<>>
  /\ cca_command \in AvailCommands
  /\ run_args = <<>>
  /\ run_timeout = NO_TIMEOUT
  /\ run_check = TRUE
  /\ run_log_command = TRUE
  /\ run_shell = "absent"
  /\ run_env = [given |-> FALSE, names |-> {}]
  /\ run_proc = NotStarted
  /\ RepoIdle
  /\ DlIdle
  /\ AnIdle
  /\ GhIdle
  /\ OutIdle
  /\ ValIdle

\* check_command_availability, lines 303-308: the call of safe_run
CheckCommandAvailabilityCall ==
  /\ pc = "cca_call"
  /\ entry = "check_command_availability"
  /\ run_args' = <<cca_command, VERSION_FLAG>>
  /\ run_timeout' = AVAILABILITY_TIMEOUT
  /\ run_check' = TRUE
  /\ run_log_command' = FALSE
  /\ pc' = "call"
  /\ UNCHANGED <<result, spawned, logs, entry, run_shell, run_env, run_proc,
                 cca_command, notRunVars>>

\* the exceptions check_command_availability catches, lines 310-314
AvailCaught ==
  {"CalledProcessError", "FileNotFoundError", "SubprocessSecurityError"}

\* check_command_availability, lines 309-315: what it makes of the outcome
\* of safe_run
CheckCommandAvailabilityReturn ==
  /\ pc = "run_returned"
  /\ entry = "check_command_availability"
  /\ result' = IF result.kind = "return" THEN Return(<<"True">>)
               ELSE IF result.kind = "raise" /\ result.val[1] \in AvailCaught
                 THEN Return(<<"False">>)
               ELSE result
  /\ pc' = "done"
  /\ UNCHANGED <<spawned, logs, entry, runVars, notRunVars>>

\* the module's entry points: safe_run and check_command_availability
InitSubprocess == InitRun \/ InitAvail

NextSubprocess ==
  \/ SafeRunValidate
  \/ SafeRunSpawn
  \/ SafeRunResult
  \/ CheckCommandAvailabilityCall
  \/ CheckCommandAvailabilityReturn

SpecSubprocess == InitSubprocess /\ [][NextSubprocess]_vars

\* C15: check_command_availability returns a boolean for every outcome of
\* its --version probe, True on success and False otherwise; it never raises.
C15_AvailabilityIsBoolean ==
  pc = "done" /\ entry = "check_command_availability" =>
    /\ result \in {Return(<<"True">>), Return(<<"False">>)}
    /\ (result = Return(<<"True">>) <=>
          (spawned # <<>> /\ run_proc.exc = "none" /\ run_proc.returncode = 0))

(***************************************************************************)
(* shared/github.py: download_workflow_content                             *)
(***************************************************************************)
GITHUB_COM == <<"g","i","t","h","u","b",".","c","o","m">>
GITHUBUSERCONTENT_COM == <<"g","i","t","h","u","b","u","s","e","r","c","o","n","t","e","n","t",".","c","o","m">>

GoodUrl == <<"h","t","t","p","s",":","/","/","r","a","w",".","g","i","t","h","u","b","u","s","e","r","c","o","n","t","e","n","t",".","c","o","m","/","o","/","r","/","c","i",".","y","m","l">>

DownloadUrls ==
  { None, <<>>,
    GoodUrl,
    <<" ","h","t","t","p","s",":","/","/","a","p","i",".","g","i","t","h","u","b",".","c","o","m","/","c","i",".","y","m","l","\n">>,
    <<"h","t","t","p",":","/","/","g","i","t","h","u","b",".","c","o","m","/","c","i",".","y","m","l">>,
    <<"f","t","p",":","/","/","g","i","t","h","u","b",".","c","o","m","/","c","i",".","y","m","l">>,
    <<"H","T","T","P","S",":","/","/","G","I","T","H","U","B",".","C","O","M","/","c","i",".","y","m","l">>,
    <<"h","t","t","p","s",":","/","/","e","v","i","l",".","c","o","m","/","c","i",".","y","m","l">>,
    <<"h","t","t","p","s",":","/","/","e","v","i","l",".","c","o","m","/","g","i","t","h","u","b",".","c","o","m","/","c","i",".","y","m","l">>,
    <<"h","t","t","p","s",":","/","/","g","i","t","h","u","b",".","c","o","m",".","e","v","i","l",".","c","o","m","/","c","i",".","y","m","l">>,
    <<"h","t","t","p","s",":","/","/","u","@","e","v","i","l",".","c","o","m","/","?","g","i","t","h","u","b","u","s","e","r","c","o","n","t","e","n","t",".","c","o","m">>,
    <<"h","t","t","p","s",":","/","/","g","i","t","h","u","b",".","c","o","m","/","$","{","x","}","/","c","i",".","y","m","l">>,
    <<"h","t","t","p","s",":","/","/","[","g","i","t","h","u","b",".","c","o","m","/","c","i",".","y","m","l">> }

\* what the network does once urlopen is called: exc is the exception raised
\* by urlopen ("URLError", "SSLError") or by response.read ("TimeoutError"),
\* "none" when a response arrives; chars is the number of characters of the
\* decoded body, of which text holds the first ones
NetFail(e) ==
  [exc |-> e, content_type |-> <<>>, utf8 |-> TRUE, text |-> <<>>, chars |-> 0]
NetResponse(ct, utf8, text, chars) ==
  [exc |-> "none", content_type |-> ct, utf8 |-> utf8, text |-> text,
   chars |-> chars]
YamlText == <<"o","n",":"," ","p","u","s","h">>
NetOutcomes ==
  { NetFail("URLError"), NetFail("SSLError"), NetFail("TimeoutError"),
    NetResponse(<<"t","e","x","t","/","p","l","a","i","n",";"," ","c","h","a","r","s","e","t","=","u","t","f","-","8">>, TRUE, YamlText, 8),
    NetResponse(<<>>, TRUE, YamlText, 8),
    NetResponse(<<"A","p","p","l","i","c","a","t","i","o","n","/","X","-","Y","A","M","L">>, TRUE, <<>>, 0),
    NetResponse(<<"i","m","a","g","e","/","p","n","g">>, TRUE, YamlText, 8),
    NetResponse(<<"t","e","x","t","/","y","a","m","l">>, FALSE, <<>>, 2),
    NetResponse(<<"t","e","x","t","/","y","a","m","l">>, TRUE, YamlText, MAX_CONTENT_LENGTH),
    NetResponse(<<"t","e","x","t","/","y","a","m","l">>, TRUE, YamlText,
                MAX_CONTENT_LENGTH + 1) }

\* one urlopen call
URLOPEN_TIMEOUT == 30
Request(url, timeout) == [url |-> url, timeout |-> timeout]

\* the outcome of one step of download_workflow_content: res is the outcome
\* of the call when the step ends it (Pending when the call goes on), url the
\* validated URL, logs the messages of the step
DlStep(res, url, msgs) == [res |-> res, url |-> url, logs |-> msgs]

\* download_workflow_content, lines 214-224: the checks before the request
DownloadPrecheck(url) ==
  LET v == validate_url(url, {HTTPS}) IN
  IF v.kind = "raise"
    THEN DlStep(Exit("1"), <<>>,
                <<Log("error", "Validation error: {}", <<>>, <<>>)>>)
  ELSE IF ~Contains(v.val, GITHUB_COM) /\ ~Contains(v.val, GITHUBUSERCONTENT_COM)
    THEN DlStep(Return(<<>>), v.val,
                <<Log("error",
                      "URL must be from GitHub or GitHub user content domains",
                      <<>>, <<>>)>>)
  ELSE DlStep(Pending, v.val, <<>>)

\* content_type passes the test of line 244
ContentTypeAccepted(content_type) ==
  \/ content_type = <<>>
  \/ Contains(Lower(content_type), <<"t","e","x","t","/">>)
  \/ Contains(Lower(content_type), <<"y","a","m","l">>)
  \/ Contains(Lower(content_type), <<"y","m","l">>)

\* download_workflow_content, lines 241-262: the request and its outcome
DownloadResponse(url, n) ==
  IF n.exc \in {"URLError", "SSLError"}
    THEN DlStep(Return(<<>>), url,
                <<Log("error", "Failed to download workflow content: {}",
                      <<>>, <<>>)>>)
  ELSE IF n.exc # "none" THEN DlStep(Raise(n.exc), url, <<>>)
  ELSE IF ~ContentTypeAccepted(n.content_type)
    THEN DlStep(Return(<<>>), url,
                <<Log("error", "Invalid content type: {}",
                      <<n.content_type>>, <<n.content_type>>)>>)
  ELSE IF ~n.utf8
    THEN DlStep(Return(<<>>), url,
                <<Log("error", "Failed to download workflow content: {}",
                      <<>>, <<>>)>>)
  ELSE IF n.chars > MAX_CONTENT_LENGTH
    THEN DlStep(Exit("1"), url,
                <<Log("error", "Validation error: {}", <<>>, <<>>)>>)
  ELSE DlStep(Return(n.text), url, <<>>)

InitDownload ==
  /\ pc = "call"
  /\ entry = "download_workflow_content"
  /\ result = Pending
  /\ spawned = <<>>
  /\ logs = <<>>
  /\ download_url \in DownloadUrls
  /\ net \in NetOutcomes
  /\ connections = <<>>
  /\ RepoIdle
  /\ RunIdle
  /\ AnIdle
  /\ GhIdle
  /\ OutIdle
  /\ ValIdle

\* download_workflow_content up to the request
DownloadValidate ==
  /\ pc = "call"
  /\ entry = "download_workflow_content"
  /\ LET pre == DownloadPrecheck(download_url) IN
       /\ logs' = logs \o pre.logs
       /\ IF pre.res = Pending
            THEN pc' = "request" /\ UNCHANGED result
            ELSE pc' = "done" /\ result' = pre.res
  /\ UNCHANGED <<spawned, entry, dlVars, notDlVars>>

\* urlopen(request, context=context, timeout=30) and the handling of the
\* response
DownloadRequest ==
  /\ pc = "request"
  /\ LET url == DownloadPrecheck(download_url).url
         step == DownloadResponse(url, net)
     IN  /\ connections' = Append(connections, Request(url, URLOPEN_TIMEOUT))
         /\ logs' = logs \o step.logs
         /\ result' = step.res
  /\ pc' = "done"
  /\ UNCHANGED <<spawned, entry, download_url, net, notDlVars>>

NextDownload ==
  \/ DownloadValidate
  \/ DownloadRequest

SpecDownload == InitDownload /\ [][NextDownload]_vars

\* C4: a connection is opened only for a URL whose scheme is https and whose
\* host is in the GitHub domain allow-list; for a URL whose host is outside
\* the list the call returns '' without any connection.
C4_ConnectsOnlyToAllowedHosts ==
  /\ \A k \in 1..Len(connections) :
       /\ UrlSplit(connections[k].url).scheme = HTTPS
       /\ UrlHostname(connections[k].url) \in ALLOWED_DOMAINS
  /\ (/\ pc = "done"
      /\ validate_url(download_url, {HTTPS}).kind = "return"
      /\ UrlHostname(Strip(download_url)) \notin ALLOWED_DOMAINS
      => result = Return(<<>>) /\ connections = <<>>)

\* C8: download_workflow_content returns a string for every URL and every
\* outcome of the request; it never raises and never ends the process.
C8_DownloadAlwaysReturns ==
  pc = "done" /\ entry = "download_workflow_content" => result.kind = "return"

(***************************************************************************)
(* analyze/command.py: cmd_analyze, the loop over the workflow listing     *)
(***************************************************************************)
\* the longest workflow listing drawn
MaxWorkflows == 2

Workflow(name, url, n, content) ==
  [name |-> name, download_url |-> url, net |-> n, content |-> content]

\* the entries of a listing, each with what the network does for its URL;
\* content is the "content" field of a sample workflow
ListedWorkflows ==
  { Workflow(<<"a">>, GoodUrl,
             NetResponse(<<"t","e","x","t","/","y","a","m","l">>, TRUE,
                         YamlText, 8), YamlText),
    Workflow(<<"b">>, None, NetFail("URLError"), <<>>),
    Workflow(<<"c">>, <<"h","t","t","p",":","/","/","g","i","t","h","u","b",
                        ".","c","o","m","/","c">>,
             NetFail("URLError"), YamlText),
    Workflow(<<"d">>, <<"h","t","t","p","s",":","/","/","e","v","i","l",
                        ".","c","o","m","/","d">>,
             NetFail("URLError"), YamlText),
    Workflow(<<"e">>, GoodUrl, NetFail("URLError"), YamlText),
    Workflow(<<"f">>, GoodUrl, NetFail("TimeoutError"), YamlText),
    Workflow(<<"g">>, GoodUrl,
             NetResponse(<<"i","m","a","g","e","/","p","n","g">>, TRUE,
                         YamlText, 8), YamlText),
    Workflow(<<"h">>, GoodUrl,
             NetResponse(<<>>, TRUE, YamlText, MAX_CONTENT_LENGTH + 1),
             YamlText),
    Workflow(<<"i">>, GoodUrl, NetResponse(<<>>, FALSE, <<>>, 2), YamlText) }

\* get_sample_workflows()
SampleWorkflows ==
  << Workflow(<<"c","i",".","y","m","l">>, <<"s","a","m","p","l","e">>,
              NetFail("URLError"), <<"n","a","m","e",":"," ","C","I">>),
     Workflow(<<"s","e","c","u","r","i","t","y",".","y","m","l">>, <<"s","a","m","p","l","e">>,
              NetFail("URLError"), <<"n","a","m","e",":"," ","S","e","c","u","r","i","t","y">>) >>

\* cmd_analyze at its loop: workflows is the listing the command got, the
\* sample listing with --sample-data and else the value handed back for
\* get_workflows(repo)
InitAnalyze ==
  /\ pc = "loop"
  /\ entry = "cmd_analyze"
  /\ result = Pending
  /\ spawned = <<>>
  /\ logs = <<>>
  /\ wf_index = 1
  /\ results = <<>>
  /\ connections = <<>>
  /\ download_url = None
  /\ net = NetFail("URLError")
  /\ args_repo = None
  /\ args_sample_data \in BOOLEAN
  /\ IF args_sample_data
       THEN workflows = SampleWorkflows
       ELSE workflows \in SeqsUpTo(ListedWorkflows, MaxWorkflows) \ {<<>>}
  /\ GITHUB_REPOSITORY = None
  /\ gh_view = GhFail("CalledProcessError")
  /\ git_remote = GitFail("CalledProcessError")
  /\ detected = Pending
  /\ RunIdle
  /\ GhIdle
  /\ OutIdle
  /\ ValIdle

\* download_workflow_content(url) as one call: its outcome, the connection it
\* opened and its messages
download_workflow_content(url, n) ==
  LET pre == DownloadPrecheck(url) IN
  IF pre.res # Pending THEN [res |-> pre.res, conn |-> <<>>, logs |-> pre.logs]
  ELSE LET step == DownloadResponse(pre.url, n)
       IN  [res |-> step.res, conn |-> <<Request(pre.url, URLOPEN_TIMEOUT)>>,
            logs |-> step.logs]

\* cmd_analyze, lines 41-58: one iteration of the loop
AnalyzeWorkflow ==
  /\ pc = "loop"
  /\ wf_index <= Len(workflows)
  /\ LET workflow == workflows[wf_index]
         dl == download_workflow_content(workflow.download_url, workflow.net)
         analysed == Append(results, workflow.name)
     IN  IF args_sample_data
           THEN /\ results' = IF workflow.content # <<>> THEN analysed
                              ELSE results
                /\ wf_index' = wf_index + 1
                /\ UNCHANGED <<pc, result, logs, connections>>
         ELSE IF workflow.download_url = None \/ workflow.download_url = <<>>
           THEN /\ logs' = Append(logs,
                     Log("warn", "No download URL for workflow: {}",
                         <<workflow.name>>, <<workflow.name>>))
                /\ wf_index' = wf_index + 1
                /\ UNCHANGED <<pc, result, results, connections>>
         ELSE /\ connections' = connections \o dl.conn
              /\ logs' = logs \o dl.logs
              /\ IF dl.res.kind = "return"
                   THEN /\ results' = IF dl.res.val # <<>> THEN analysed
                                      ELSE results
                        /\ wf_index' = wf_index + 1
                        /\ UNCHANGED <<pc, result>>
                   ELSE \* SystemExit or the exception leaves cmd_analyze
                        /\ pc' = "done"
                        /\ result' = dl.res
                        /\ UNCHANGED <<results, wf_index>>
  /\ UNCHANGED <<spawned, entry, workflows, notAnVars>>

\* cmd_analyze, lines 60-68: the loop is over and the results are handed to
\* the output functions
AnalyzeFinish ==
  /\ pc = "loop"
  /\ wf_index > Len(workflows)
  /\ pc' = "done"
  /\ result' = Return(None)
  /\ UNCHANGED <<spawned, logs, entry, connections, anVars, notAnVars>>

NextAnalyze ==
  \/ AnalyzeWorkflow
  \/ AnalyzeFinish

SpecAnalyze == InitAnalyze /\ [][NextAnalyze]_vars

DANGEROUS_SHELL_CHARS ==
  {";", "&", "|", BACKQUOTE, "$", "(", ")", "{", "}", "<", ">", "*", "?",
   "[", "]", "~"}

\* (?i)\b<word>\b
HasWordCI(s, word) ==
  \E i \in 1..Len(s) :
    /\ MatchAt(Lower(s), i, word)
    /\ (i = 1 \/ s[i - 1] \notin WordChars)
    /\ (i + Len(word) > Len(s) \/ s[i + Len(word)] \notin WordChars)

HexChars == DigitChars \cup {"a","b","c","d","e","f","A","B","C","D","E","F"}
\* \\x[0-9a-fA-F]{2}
HasHexEscape(s) ==
  \E i \in 1..Len(s) :
    /\ i + 3 <= Len(s)
    /\ s[i] = "\\"
    /\ s[i + 1] = "x"
    /\ s[i + 2] \in HexChars
    /\ s[i + 3] \in HexChars
\* \\[0-7]{1,3}
HasOctalEscape(s) ==
  \E i \in 1..Len(s) :
    /\ i + 1 <= Len(s)
    /\ s[i] = "\\"
    /\ s[i + 1] \in {"0","1","2","3","4","5","6","7"}

\* InputValidator.sanitize_for_shell(value)
sanitize_for_shell(value) ==
  IF ~IsStr(value) THEN Raise("ValidationError")
  ELSE IF \E i \in 1..Len(value) : value[i] \in DANGEROUS_SHELL_CHARS
    THEN Raise("ValidationError")
  ELSE IF \/ HasWordCI(value, <<"e","v","a","l">>)
          \/ HasWordCI(value, <<"e","x","e","c">>)
          \/ HasWordCI(value, <<"s","y","s","t","e","m">>)
          \/ HasWordCI(value, <<"p","o","p","e","n">>)
          \/ HasHexEscape(value)
          \/ HasOctalEscape(value)
    THEN Raise("ValidationError")
  ELSE Return(value)

(***************************************************************************)
(* shared/github.py: run_gh_command and get_workflows                      *)
(***************************************************************************)
GH_TIMEOUT == 30
GH_PATH == <<"/","u","s","r","/","b","i","n","/","g","h">>

\* the --jq filter of get_workflows
WORKFLOW_JQ_FILTER ==
  <<".","[","]"," ","|"," ","s","e","l","e","c","t","(",".","t","y","p","e"," ","=","="," ","\"","f","i","l","e","\""," ","a","n","d"," ","(",".","n","a","m","e"," ">>
  \o <<"|"," ","e","n","d","s","w","i","t","h","(","\"",".","y","m","l","\"",")"," ","o","r"," ","e","n","d","s","w","i","t","h","(","\"",".","y","a","m","l","\"",")",")",")">>

\* the argument list get_workflows hands to run_gh_command
GetWorkflowsArgv(repo) ==
  << <<"a","p","i">>,
     <<"r","e","p","o","s","/">> \o repo
       \o <<"/","c","o","n","t","e","n","t","s","/",".","g","i","t","h","u","b","/","w","o","r","k","f","l","o","w","s">>,
     <<"-","-","j","q">>,
     WORKFLOW_JQ_FILTER >>

\* repository names get_workflows is called with: those that
\* validate_repository_name accepts
WorkflowRepos ==
  { r \in { <<"o","/","r">>, <<"a","-","b","/","c",".","d">>, SAMPLE_REPO,
            <<"o","/","r",";","x">> } :
      validate_repository_name(r).kind = "return" }

\* argument lists of the other callers of run_gh_command
GhArgLists ==
  { << <<"a","p","i">>, <<"u","s","e","r">> >>,
    << <<"a","u","t","h">>, <<"s","t","a","t","u","s">> >>,
    << <<"r","e","p","o">>, <<"v","i","e","w">> >>,
    << <<"r","u","n">>, <<"l","i","s","t">>, <<"-","-","j","s","o","n">> >>,
    << <<"a","p","i">>, <<"r","e","p","o","s","/","o","/","r","/","a","c","t","i","o","n","s","/","r","u","n","s","?","p","e","r","_","p","a","g","e","=","5">> >>,
    << <<"a","p","i">>, <<"x","/","e","x","e","c","/","y">> >>,
    << <<"a","p","i">>, <<"a","\\","x","4","1">> >>,
    << <<"a","p","i">>, <<"t","o","k","e","n","=","a","b","c">> >>,
    << <<"a","p","i">>, IntFive >> }

\* one line of the command's output: text is the line and json the object
\* json.loads(text) yields, None when it raises JSONDecodeError
GhLine(text, json) == [text |-> text, json |-> json]
GhStdouts ==
  { <<>>,
    << GhLine(<<"{","\"","n","a","m","e","\"",":","\"","a","\"","}">>, <<"a">>) >>,
    << GhLine(<<"{","\"","n","a","m","e","\"",":","\"","a","\"","}">>, <<"a">>),
       GhLine(<<" ">>, None),
       GhLine(<<"{","b","a","d">>, None),
       GhLine(<<"{","\"","n","a","m","e","\"",":","\"","b","\"","}">>, <<"b">>) >> }

\* what the gh process does
GhProc(exc, rc, stdout, stderr) ==
  [exc |-> exc, returncode |-> rc, stdout |-> stdout, stderr |-> stderr]
GhProcOutcomes ==
  {GhProc("none", 0, out, <<>>) : out \in GhStdouts}
    \cup { GhProc("none", 1, <<>>, <<>>),
           GhProc("none", 1, <<>>, <<"t","o","k","e","n",":"," ","a","b","c">>),
           GhProc("TimeoutExpired", 0, <<>>, <<>>) }

\* get_workflows, lines 198-209: the objects of the lines that parse
IsWorkflowLine(line) == Strip(line.text) # <<>> /\ line.json # None
WorkflowsOf(stdout) ==
  LET kept == SelectSeq(stdout, IsWorkflowLine)
  IN  [i \in 1..Len(kept) |-> kept[i].json]

InitGh ==
  /\ result = Pending
  /\ spawned = <<>>
  /\ logs = <<>>
  /\ gh_which \in {GH_PATH, None}
  /\ \/ /\ entry = "get_workflows"
        /\ pc = "call"
        /\ wf_repo \in WorkflowRepos
        /\ gh_args = <<>>
        /\ gh_check = TRUE
     \/ /\ entry = "run_gh_command"
        /\ pc = "gh_call"
        /\ wf_repo = None
        /\ gh_args \in GhArgLists
        /\ gh_check \in BOOLEAN
  /\ RepoIdle
  /\ RunIdle
  /\ DlIdle
  /\ AnIdle
  /\ OutIdle
  /\ ValIdle

\* get_workflows up to its call of run_gh_command
GetWorkflowsCall ==
  /\ pc = "call"
  /\ entry = "get_workflows"
  /\ logs' = Append(logs, Log("info", "Fetching workflows from {}...",
                              <<wf_repo>>, <<wf_repo>>))
  /\ gh_args' = GetWorkflowsArgv(wf_repo)
  /\ gh_check' = FALSE
  /\ pc' = "gh_call"
  /\ UNCHANGED <<result, spawned, entry, gh_which, wf_repo, notGhVars>>

\* run_gh_command, lines 143-147: the first argument that is rejected
GhArgsRejected(args) ==
  \E i \in 1..Len(args) :
    ~IsStr(args[i]) \/ sanitize_for_shell(args[i]).kind = "raise"
FirstRejected(args) ==
  SetMin({i \in 1..Len(args) :
            ~IsStr(args[i]) \/ sanitize_for_shell(args[i]).kind = "raise"})

RunGhValidate ==
  /\ pc = "gh_call"
  /\ IF GhArgsRejected(gh_args)
       THEN /\ logs' = Append(logs,
                 IF ~IsStr(gh_args[FirstRejected(gh_args)])
                   THEN Log("error",
                            "Invalid argument type for GitHub CLI command",
                            <<>>, <<>>)
                   ELSE Log("error", "Validation error: {}", <<>>, <<>>))
            /\ result' = Exit("1")
            /\ pc' = "done"
       ELSE /\ pc' = "gh_which"
            /\ UNCHANGED <<result, logs>>
  /\ UNCHANGED <<spawned, entry, ghVars, notGhVars>>

\* run_gh_command, lines 150-168: shutil.which("gh") and subprocess.run
RunGhSpawn ==
  /\ pc = "gh_which"
  /\ IF gh_which = None
       THEN /\ logs' = Append(logs,
                 Log("error", "GitHub CLI (gh) not found in PATH", <<>>, <<>>))
            /\ result' = Exit("1")
            /\ pc' = "done"
            /\ UNCHANGED spawned
       ELSE /\ spawned' = Append(spawned,
                 Spawn(<<gh_which>> \o gh_args, GH_TIMEOUT, ENV_FULL, FALSE))
            /\ pc' = "gh_running"
            /\ UNCHANGED <<result, logs>>
  /\ UNCHANGED <<entry, ghVars, notGhVars>>

\* the end of subprocess.run in run_gh_command and, for get_workflows, what
\* it makes of the CompletedProcess
RunGhResult ==
  /\ pc = "gh_running"
  /\ pc' = "done"
  /\ \E proc \in GhProcOutcomes :
       IF proc.exc = "TimeoutExpired"
         THEN /\ logs' = Append(logs,
                   Log("error", "GitHub CLI command timed out", <<>>, <<>>))
              /\ result' = Exit("1")
       ELSE IF gh_check /\ proc.returncode # 0
         THEN /\ logs' = logs
                   \o <<Log("error", "GitHub CLI command failed: {}",
                            gh_args, gh_args)>>
                   \o (IF proc.stderr # <<>>
                         THEN <<Log("error", "Error output: {}",
                                    <<proc.stderr>>, <<proc.stderr>>)>>
                         ELSE <<>>)
              /\ result' = Exit("1")
       ELSE IF entry # "get_workflows"
         THEN /\ result' = Return(<<"CompletedProcess",
                                 IF proc.returncode = 0 THEN "0" ELSE "1">>)
              /\ UNCHANGED logs
       ELSE IF proc.returncode # 0
         THEN /\ logs' = Append(logs,
                   Log("error", "Failed to fetch workflows. Check repository access and permissions.",
                       <<>>, <<>>))
              /\ result' = Return(<<>>)
       ELSE /\ result' = Return(WorkflowsOf(proc.stdout))
            /\ UNCHANGED logs
  /\ UNCHANGED <<spawned, entry, ghVars, notGhVars>>

NextGh ==
  \/ GetWorkflowsCall
  \/ RunGhValidate
  \/ RunGhSpawn
  \/ RunGhResult

SpecGh == InitGh /\ [][NextGh]_vars

\* C6: for every validated repository name get_workflows returns a list; it
\* never raises and never ends the process, runs the listing command and
\* returns [] when the command exits non-zero.
C6_GetWorkflowsReturnsList ==
  pc = "done" /\ entry = "get_workflows" =>
    /\ result.kind = "return"
    /\ spawned # <<>>

(***************************************************************************)
(* os.path (posixpath) as used by validate_file_path and format_output     *)
(***************************************************************************)
\* str.split(sep) for a one-character separator
RECURSIVE Split(_, _)
Split(s, sep) ==
  LET i == Find(s, 1, {sep}) IN
  IF i > Len(s) THEN <<s>>
  ELSE <<SubSeq(s, 1, i - 1)>> \o Split(SubSeq(s, i + 1, Len(s)), sep)

\* sep.join(parts)
RECURSIVE Join(_, _)
Join(parts, sep) ==
  IF parts = <<>> THEN <<>>
  ELSE IF Len(parts) = 1 THEN parts[1]
  ELSE parts[1] \o <<sep>> \o Join(Tail(parts), sep)

DOT == <<".">>
DOTDOT == <<".",".">>

\* the loop of posixpath.normpath over the components
RECURSIVE NormComps(_, _, _)
NormComps(comps, new_comps, initial_slashes) ==
  IF comps = <<>> THEN new_comps
  ELSE LET comp == Head(comps) IN
    IF comp = <<>> \/ comp = DOT
      THEN NormComps(Tail(comps), new_comps, initial_slashes)
    ELSE IF \/ comp # DOTDOT
            \/ (initial_slashes = 0 /\ new_comps = <<>>)
            \/ (new_comps # <<>> /\ new_comps[Len(new_comps)] = DOTDOT)
      THEN NormComps(Tail(comps), Append(new_comps, comp), initial_slashes)
    ELSE IF new_comps # <<>>
      THEN NormComps(Tail(comps), SubSeq(new_comps, 1, Len(new_comps) - 1),
                     initial_slashes)
    ELSE NormComps(Tail(comps), new_comps, initial_slashes)

\* os.path.normpath(path)
normpath(path) ==
  IF path = <<>> THEN DOT
  ELSE LET initial_slashes ==
             IF ~StartsWith(path, <<"/">>) THEN 0
             ELSE IF StartsWith(path, <<"/","/">>)
                     /\ ~StartsWith(path, <<"/","/","/">>) THEN 2
             ELSE 1
           joined == Join(NormComps(Split(path, "/"), <<>>, initial_slashes),
                          "/")
           whole == [i \in 1..initial_slashes |-> "/"] \o joined
       IN  IF whole = <<>> THEN DOT ELSE whole

\* os.path.isabs(path)
isabs(path) == StartsWith(path, <<"/">>)

\* os.path.join(a, b)
pathjoin(a, b) ==
  IF isabs(b) THEN b
  ELSE IF a = <<>> \/ EndsWith(a, <<"/">>) THEN a \o b
  ELSE a \o <<"/">> \o b

\* os.path.basename(path)
basename(path) ==
  SubSeq(path, FindLast(path, Len(path), {"/"}) + 1, Len(path))

\* os.path.dirname(path)
dirname(path) ==
  LET head == SubSeq(path, 1, FindLast(path, Len(path), {"/"}))
  IN  IF head # <<>> /\ \E i \in 1..Len(head) : head[i] # "/"
        THEN SubSeq(head, 1, RunStart(head, Len(head), {"/"}))
        ELSE head

(***************************************************************************)
(* shared/validation.py: validate_file_path and validate_filename          *)
(***************************************************************************)
MAX_PATH_LENGTH == 4096
MAX_FILENAME_LENGTH == 255

\* validate_file_path without the substring test of line 91
validate_file_path_PatternsOnly(path, allow_absolute) ==
  IF path = None \/ path = <<>> \/ ~IsStr(path) THEN Raise("ValidationError")
  ELSE LET p == Strip(path) IN
    IF Len(p) > MAX_PATH_LENGTH THEN Raise("ValidationError")
    ELSE IF HasDangerousPattern(p) THEN Raise("ValidationError")
    ELSE IF ~allow_absolute /\ isabs(normpath(p))
      THEN Raise("ValidationError")
    ELSE IF StartsWith(normpath(p), <<"\\","\\">>)
      THEN Raise("ValidationError")
    ELSE Return(normpath(p))

\* InputValidator.validate_file_path(path, allow_absolute)
validate_file_path(path, allow_absolute) ==
  IF path = None \/ path = <<>> \/ ~IsStr(path) THEN Raise("ValidationError")
  ELSE LET p == Strip(path) IN
    IF Len(p) > MAX_PATH_LENGTH THEN Raise("ValidationError")
    ELSE IF Contains(p, DOTDOT) THEN Raise("ValidationError")
    ELSE IF HasDangerousPattern(p) THEN Raise("ValidationError")
    ELSE IF ~allow_absolute /\ isabs(normpath(p))
      THEN Raise("ValidationError")
    ELSE IF StartsWith(normpath(p), <<"\\","\\">>)
      THEN Raise("ValidationError")
    ELSE Return(normpath(p))

ToUpper(c) ==
  IF c \in LowerChars
    THEN UpperSeq[CHOOSE i \in 1..26 : LowerSeq[i] = c]
    ELSE c
\* str.upper()
Upper(s) == [i \in 1..Len(s) |-> ToUpper(s[i])]

\* the characters below chr(32) that the inputs can hold
ControlChars == {"\t", "\n", "\r", "\f"}

RESERVED_NAMES ==
  { <<"C","O","N">>, <<"P","R","N">>, <<"A","U","X">>, <<"N","U","L">> }
    \cup { <<"C","O","M">> \o <<d>> : d \in DigitChars \ {"0"} }
    \cup { <<"L","P","T">> \o <<d>> : d \in DigitChars \ {"0"} }

\* InputValidator.validate_filename(filename)
validate_filename(filename) ==
  IF filename = None \/ filename = <<>> \/ ~IsStr(filename)
    THEN Raise("ValidationError")
  ELSE LET f == Strip(filename) IN
    IF Len(f) > MAX_FILENAME_LENGTH THEN Raise("ValidationError")
    ELSE IF \E i \in 1..Len(f) : f[i] \in ControlChars
      THEN Raise("ValidationError")
    ELSE IF HasDangerousPattern(f) THEN Raise("ValidationError")
    ELSE IF Upper(Split(f, ".")[1]) \in RESERVED_NAMES
      THEN Raise("ValidationError")
    ELSE Return(f)

(***************************************************************************)
(* shared/output.py: format_output                                         *)
(***************************************************************************)
\* os.getcwd(), os.path.expanduser("~") and tempfile.gettempdir()
CWD == <<"/","w","/","p">>
HOME == <<"/","h","/","u">>
TMPDIR == <<"/","t","m","p">>

\* os.path.abspath(path)
abspath(path) == normpath(pathjoin(CWD, path))

ALLOWED_PATHS == <<CWD, HOME, TMPDIR>>

\* format_output, line 42
PathIsAllowed(abs_path) ==
  \E k \in 1..Len(ALLOWED_PATHS) : StartsWith(abs_path, ALLOWED_PATHS[k])

OutputFiles ==
  { None, <<>>,
    <<"o","u","t",".","j","s","o","n">>,
    <<".","/","s","u","b","/","/","o","u","t",".","j","s","o","n">>,
    <<" ","/","e","t","c","/","x">>,
    <<"/","t","m","p","/","r",".","y","m","l">>,
    <<"/","t","m","p","/","a","/","b","/","o",".","j","s","o","n">>,
    <<"/","h","/","u","/","r","e","p","o","r","t","s","/","a",".","j","s","o","n">>,
    <<"/","t","m","p","x","/","o","u","t",".","j","s","o","n">>,
    <<"/","h","/","u","2","/","o",".","j","s","o","n">>,
    <<"/","w","/","p","r","o","d",".","j","s","o","n">>,
    <<"/","e","t","c","/","p","a","s","s","w","d">>,
    <<".",".","/","x",".","j","s","o","n">>,
    <<"/","t","m","p","/","$","{","x","}",".","j","s","o","n">>,
    <<"/","t","m","p","/","c","o","n",".","t","x","t">>,
    <<"/","t","m","p","/","a","\t","b">>,
    <<"/","t","m","p","/">> }

\* the components of a path
IsComponent(c) == c # <<>>
PathComponents(path) == SelectSeq(Split(path, "/"), IsComponent)
\* path is dir or lies below it, component by component
IsNestedUnder(path, dir) ==
  LET pcs == PathComponents(path)
      dcs == PathComponents(dir)
  IN  Len(dcs) <= Len(pcs) /\ SubSeq(pcs, 1, Len(dcs)) = dcs

\* a directory that exists in every run: the working, home and temp
\* directories and the directories above them
AlwaysExists(dir) ==
  \E k \in 1..Len(ALLOWED_PATHS) : IsNestedUnder(ALLOWED_PATHS[k], dir)

\* one file-system call: file is the absolute path of the output file the
\* call is made for
FsOp(op, path, mode, file) ==
  [op |-> op, path |-> path, mode |-> mode, file |-> file]

InitOutput ==
  /\ pc = "call"
  /\ entry = "format_output"
  /\ result = Pending
  /\ spawned = <<>>
  /\ logs = <<>>
  /\ output_file \in OutputFiles
  /\ dir_exists \in BOOLEAN
  /\ parent_exists \in BOOLEAN
  /\ (dir_exists => parent_exists)
  /\ IF output_file \in {None, <<>>}
       THEN dir_exists /\ parent_exists
       ELSE LET output_dir == dirname(abspath(output_file)) IN
              /\ (AlwaysExists(output_dir) => dir_exists)
              /\ (AlwaysExists(dirname(output_dir)) => parent_exists)
  /\ out_format \in {"json", "yaml", "table"}
  /\ io_fail \in {"none", "makedirs", "open", "write", "chmod"}
  /\ fs_ops = <<>>
  /\ printed = <<>>
  /\ RepoIdle
  /\ RunIdle
  /\ DlIdle
  /\ AnIdle
  /\ GhIdle
  /\ ValIdle

\* the functions that call format_output: the function itself when it is
\* the entry, and the handlers that hand their data to it
FormatOutputCallers == {"format_output", "cmd_analyze", "cmd_cost"}
\* cmd_cost goes on after format_output returned, the others are over
AfterFormatOutput == IF entry = "cmd_cost" THEN "fo_returned" ELSE "done"

\* format_output, lines 28-30: the two validations of the output file
OutputFileRejected(file) ==
  \/ validate_and_log_error(validate_file_path(file, TRUE)).kind = "exit"
  \/ validate_and_log_error(validate_filename(basename(file))).kind = "exit"

\* format_output, lines 19-44: the output is rendered and printed, or the
\* output file is checked
FormatOutputCheck ==
  /\ pc = "call"
  /\ entry \in FormatOutputCallers
  /\ IF output_file = None \/ output_file = <<>>
       THEN /\ printed' = Append(printed, out_format)
            /\ result' = Return(None)
            /\ pc' = AfterFormatOutput
            /\ UNCHANGED logs
       ELSE IF OutputFileRejected(output_file)
         THEN /\ logs' = Append(logs,
                   Log("error", "Validation error: {}", <<>>, <<>>))
              /\ result' = Exit("1")
              /\ pc' = "done"
              /\ UNCHANGED printed
       ELSE IF ~PathIsAllowed(abspath(output_file))
         THEN /\ logs' = Append(logs,
                   Log("error", "Output file must be in current directory, user home directory, or temp directory",
                       <<>>, <<>>))
              /\ result' = Exit("1")
              /\ pc' = "done"
              /\ UNCHANGED printed
       ELSE /\ pc' = "makedirs"
            /\ UNCHANGED <<result, logs, printed>>
  /\ UNCHANGED <<spawned, entry, output_file, out_format, io_fail, dir_exists,
                 parent_exists,
                 fs_ops, notOutVars>>

\* format_output, lines 59-61
OutputFails ==
  /\ logs' = Append(logs,
       Log("error", "Failed to write output file: {}", <<>>, <<>>))
  /\ result' = Exit("1")
  /\ pc' = "done"

\* os.makedirs(name, mode): the mkdir calls it makes. The directories above
\* the last one are created by the recursive call makedirs(head), which
\* carries no mode, so they get the default mode 0o777
MakedirsOps(name, mode, file) ==
  (IF dirname(name) # <<>> /\ basename(name) # <<>> /\ ~parent_exists
     THEN <<FsOp("mkdir", dirname(name), "0o777", file)>>
     ELSE <<>>)
    \o <<FsOp("mkdir", name, mode, file)>>

\* format_output, lines 48-50
FormatOutputMakedirs ==
  /\ pc = "makedirs"
  /\ LET abs_path == abspath(output_file)
         output_dir == dirname(abs_path)
     IN  IF output_dir # <<>> /\ ~dir_exists
           THEN /\ fs_ops' = fs_ops \o MakedirsOps(output_dir, "0o750", abs_path)
                /\ IF io_fail = "makedirs"
                     THEN /\ OutputFails
                          /\ parent_exists' = TRUE
                          /\ UNCHANGED dir_exists
                     ELSE /\ dir_exists' = TRUE
                          /\ parent_exists' = TRUE
                          /\ pc' = "open"
                          /\ UNCHANGED <<result, logs>>
           ELSE /\ pc' = "open"
                /\ UNCHANGED <<result, logs, fs_ops, dir_exists, parent_exists>>
  /\ UNCHANGED <<spawned, entry, output_file, out_format, io_fail, printed,
                 notOutVars>>

\* format_output, lines 53-54
FormatOutputWrite ==
  /\ pc = "open"
  /\ LET abs_path == abspath(output_file) IN
       fs_ops' = fs_ops
         \o <<FsOp("open", abs_path, "w", abs_path)>>
         \o (IF io_fail = "open" THEN <<>>
             ELSE <<FsOp("write", abs_path, "w", abs_path)>>)
  /\ IF io_fail \in {"open", "write"}
       THEN OutputFails
       ELSE /\ pc' = "chmod"
            /\ UNCHANGED <<result, logs>>
  /\ UNCHANGED <<spawned, entry, output_file, out_format, io_fail, dir_exists,
                 parent_exists, printed, notOutVars>>

\* format_output, lines 57-58
FormatOutputChmod ==
  /\ pc = "chmod"
  /\ LET abs_path == abspath(output_file) IN
       /\ fs_ops' = Append(fs_ops, FsOp("chmod", abs_path, "0o640", abs_path))
       /\ IF io_fail = "chmod"
            THEN OutputFails
            ELSE /\ logs' = Append(logs,
                      Log("info", "Output written to {}",
                          <<abs_path>>, <<abs_path>>))
                 /\ result' = Return(None)
                 /\ pc' = AfterFormatOutput
  /\ UNCHANGED <<spawned, entry, output_file, out_format, io_fail, dir_exists,
                 parent_exists,
                 printed, notOutVars>>

NextOutput ==
  \/ FormatOutputCheck
  \/ FormatOutputMakedirs
  \/ FormatOutputWrite
  \/ FormatOutputChmod

SpecOutput == InitOutput /\ [][NextOutput]_vars

NestedUnderAllowedDir(path) ==
  \E k \in 1..Len(ALLOWED_PATHS) : IsNestedUnder(path, ALLOWED_PATHS[k])

\* C5: format_output creates a directory or opens a file only for an output
\* file whose absolute path is nested, component by component, under the
\* working directory, the home directory or the temp directory; for a path
\* outside all three it exits non-zero before any file-system call.
C5_WritesOnlyUnderAllowedDirs ==
  /\ \A k \in 1..Len(fs_ops) : NestedUnderAllowedDir(fs_ops[k].file)
  /\ (/\ pc = "done"
      /\ entry = "format_output"
      /\ output_file \notin {None, <<>>}
      /\ ~NestedUnderAllowedDir(abspath(output_file))
      => result = Exit("1") /\ fs_ops = <<>>)

\* the positions of the calls of one kind in fs_ops
OpsAt(op) == {k \in 1..Len(fs_ops) : fs_ops[k].op = op}
OutputWrittenLogged ==
  \E k \in 1..Len(logs) : logs[k].template = "Output written to {}"

\* C17: on a format_output call with an output file every missing parent
\* directory is created with mode 0750 before the file is opened, the file's
\* mode is set to 0640 after the content is written, 'Output written' is
\* logged only after both succeeded, and a failing file-system call ends the
\* process with exit status 1.
C17_SecureWriteSequence ==
  /\ \A k \in OpsAt("mkdir") : fs_ops[k].mode = "0o750"
  /\ \A j \in OpsAt("mkdir") : \A k \in OpsAt("open") : j < k
  /\ \A j \in OpsAt("write") : \A k \in OpsAt("chmod") :
       j < k /\ fs_ops[k].mode = "0o640"
  /\ (OutputWrittenLogged =>
        /\ OpsAt("write") # {}
        /\ OpsAt("chmod") # {}
        /\ result = Return(None))
  /\ (/\ pc = "done"
      /\ entry = "format_output"
      /\ \/ io_fail = "makedirs" /\ OpsAt("mkdir") # {}
         \/ io_fail \in {"open", "write"} /\ OpsAt("open") # {}
         \/ io_fail = "chmod" /\ OpsAt("chmod") # {}
      => result = Exit("1"))

(***************************************************************************)
(* The --output option of the command handlers: analyze/command.py,        *)
(* cost/command.py, benchmark/command.py, generate/workflow_patch          *)
(***************************************************************************)
OutputHandlers ==
  {"cmd_analyze", "cmd_cost", "cmd_benchmark", "cmd_generate_workflow_patch"}

\* the handler has its data and reaches the statement that emits it;
\* output_file is args.output as argparse delivered it and out_format is
\* args.format
InitHandlers ==
  /\ pc = "emit"
  /\ result = Pending
  /\ spawned = <<>>
  /\ logs = <<>>
  /\ output_file \in OutputFiles
  /\ dir_exists \in BOOLEAN
  /\ parent_exists \in BOOLEAN
  /\ (dir_exists => parent_exists)
  /\ IF output_file \in {None, <<>>}
       THEN dir_exists /\ parent_exists
       ELSE LET output_dir == dirname(abspath(output_file)) IN
              /\ (AlwaysExists(output_dir) => dir_exists)
              /\ (AlwaysExists(dirname(output_dir)) => parent_exists)
  /\ out_format \in {"json", "yaml", "table"}
  /\ io_fail \in {"none", "makedirs", "open", "write", "chmod"}
  /\ entry \in OutputHandlers
  /\ fs_ops = <<>>
  /\ printed = <<>>
  /\ RepoIdle
  /\ RunIdle
  /\ DlIdle
  /\ AnIdle
  /\ GhIdle
  /\ ValIdle

\* the message of the handler after its file was written
SavedTemplate ==
  [cmd_analyze |-> "Analysis saved to {}",
   cmd_cost |-> "Cost analysis saved to {}",
   cmd_benchmark |-> "Benchmark results saved to {}",
   cmd_generate_workflow_patch |-> "Workflow patches saved to {}"]

\* open(args.output, "w") followed by f.write / json.dump: the calls made.
\* The open fails when the directory of the file does not exist
DirectOpenFails == io_fail = "open" \/ ~dir_exists
DirectWriteFails == DirectOpenFails \/ io_fail = "write"
DirectOpenOps(file) ==
  LET abs_path == abspath(file) IN
  <<FsOp("open", abs_path, "w", abs_path)>>
    \o (IF DirectOpenFails THEN <<>>
        ELSE <<FsOp("write", abs_path, "w", abs_path)>>)

\* does the handler hand its data to format_output for this format?
UsesFormatOutput(handler, format) ==
  handler \in {"cmd_analyze", "cmd_cost"} /\ format \in {"json", "yaml"}

\* is the output file written at all for this format? cmd_benchmark and
\* cmd_generate_workflow_patch only print unless the format is json
WritesFile(handler, format) ==
  handler \in {"cmd_analyze", "cmd_cost"} \/ format = "json"

\* cmd_analyze 64-68 and 112-126, cmd_cost 31-37 and 71-88, cmd_benchmark
\* 40-46, cmd_generate_workflow_patch 79-84: the data is emitted
HandlerEmit ==
  /\ pc = "emit"
  /\ entry \in OutputHandlers
  /\ IF UsesFormatOutput(entry, out_format)
       THEN /\ pc' = "call"
            /\ UNCHANGED <<result, logs, fs_ops, printed>>
     ELSE IF output_file \in {None, <<>>} \/ ~WritesFile(entry, out_format)
       THEN /\ printed' = Append(printed, out_format)
            /\ result' = Return(None)
            /\ pc' = "done"
            /\ UNCHANGED <<logs, fs_ops>>
     ELSE /\ fs_ops' = fs_ops \o DirectOpenOps(output_file)
          /\ pc' = "done"
          /\ UNCHANGED printed
          /\ IF ~DirectWriteFails
               THEN /\ logs' = Append(logs,
                         Log("success", SavedTemplate[entry],
                             <<output_file>>, <<output_file>>))
                    /\ result' = Return(None)
             ELSE IF entry \in {"cmd_analyze", "cmd_cost"}
               \* except OSError: log_warn (analyze) or log_info (cost)
               THEN /\ logs' = Append(logs,
                         Log(IF entry = "cmd_analyze" THEN "warn" ELSE "info",
                             "Failed to write output file: {}", <<>>, <<>>))
                    /\ result' = Return(None)
             ELSE \* nothing catches the OSError
                  /\ result' = Raise("OSError")
                  /\ UNCHANGED logs
  /\ UNCHANGED <<spawned, entry, output_file, out_format, io_fail, dir_exists,
                 parent_exists, notOutVars>>

\* cmd_cost, lines 33-34: after format_output returned
CostSaved ==
  /\ pc = "fo_returned"
  /\ entry = "cmd_cost"
  /\ logs' = IF output_file \in {None, <<>>} THEN logs
             ELSE Append(logs, Log("success", SavedTemplate[entry],
                                   <<output_file>>, <<output_file>>))
  /\ pc' = "done"
  /\ UNCHANGED <<result, spawned, entry, outVars, notOutVars>>

NextHandlers ==
  \/ HandlerEmit
  \/ CostSaved
  \/ FormatOutputCheck
  \/ FormatOutputMakedirs
  \/ FormatOutputWrite
  \/ FormatOutputChmod

SpecHandlers == InitHandlers /\ [][NextHandlers]_vars

\* C18: every file a command handler (analyze, cost, benchmark, generate
\* workflow-patch) opens for its --output option, in every format, has passed
\* the path and filename validation and lies in the working, home or temp
\* directory: no handler opens the path it was given without these checks.
C18_HandlersWriteThroughSecureWriter ==
  entry \in OutputHandlers =>
    \A k \in OpsAt("open") :
      /\ ~OutputFileRejected(output_file)
      /\ PathIsAllowed(abspath(output_file))

(***************************************************************************)
(* shared/validation.py: validate_repository_name and validate_file_path   *)
(* called on their own                                                     *)
(***************************************************************************)
\* the longest owner part the inputs hold
MaxSegLen == 4
SegChars == {"a", ".", "-", ";"}

\* inputs of validate_repository_name: owner, the rest, and whitespace
\* around them
RepoNameInputs ==
  {None, <<>>}
    \cup { pre \o owner \o rest \o post :
             pre \in {<<>>, <<" ">>},
             owner \in SeqsUpTo(SegChars, MaxSegLen),
             rest \in { <<"/","r">>, <<"/">>, <<"/","r","/","x">>,
                        <<"/","$","{","x","}">> },
             post \in {<<>>, <<"\n">>} }
    \cup { [i \in 1..99 |-> "a"] \o <<"/","r">> }

\* inputs of validate_file_path
FilePathInputs ==
  {None, <<>>, IntFive}
    \cup { pre \o body \o post :
             pre \in { <<>>, <<"/">>, <<"/","/">>, <<"\\","\\">>, <<" ">>,
                       <<".","/">> },
             body \in { <<"a">>, <<".",".">>, <<"a",".",".","b">>,
                        <<"a","/",".",".","/","b">>,
                        <<"a","\\",".",".","\\","b">>,
                        <<"a","/",".","/","b">>, <<"a",".","/",".","b">>,
                        <<"s","r","v","\\","x">>, <<".",".",".">>,
                        <<"$","{","x","}">> },
             post \in {<<>>, <<"/">>, <<" ">>, <<"/",".",".">>} }
    \cup { [i \in 1..4095 |-> "a"] \o <<".",".">> }

ValidationEntries == {"validate_repository_name", "validate_file_path"}

InitValidation ==
  /\ pc = "call"
  /\ entry \in ValidationEntries
  /\ result = Pending
  /\ spawned = <<>>
  /\ logs = <<>>
  /\ IF entry = "validate_repository_name"
       THEN val_input \in RepoNameInputs /\ val_allow_absolute = FALSE
       ELSE val_input \in FilePathInputs /\ val_allow_absolute \in BOOLEAN
  /\ val_schemes = [given |-> FALSE, schemes |-> {}]
  /\ val_again = Pending
  /\ val_max_size = 0
  /\ yaml_loaded = <<>>
  /\ val_data = PyNone
  /\ RepoIdle
  /\ RunIdle
  /\ DlIdle
  /\ AnIdle
  /\ GhIdle
  /\ OutIdle

\* InputValidator.validate_repository_name(val_input)
ValidateRepositoryNameCall ==
  /\ pc = "call"
  /\ entry = "validate_repository_name"
  /\ result' = validate_repository_name(val_input)
  /\ pc' = "done"
  /\ UNCHANGED <<spawned, logs, entry, valVars, notValVars>>

\* InputValidator.validate_file_path(val_input, val_allow_absolute)
ValidateFilePathCall ==
  /\ pc = "call"
  /\ entry = "validate_file_path"
  /\ result' = validate_file_path(val_input, val_allow_absolute)
  /\ pc' = "done"
  /\ UNCHANGED <<spawned, logs, entry, valVars, notValVars>>

NextValidation ==
  \/ ValidateRepositoryNameCall
  \/ ValidateFilePathCall

SpecValidation == InitValidation /\ [][NextValidation]_vars

\* one part of an accepted name: characters of [A-Za-z0-9._-], the first
\* and the last alphanumeric
WellFormedPart(x) ==
  /\ x # <<>>
  /\ \A i \in 1..Len(x) : x[i] \in AlnumChars \cup {".", "_", "-"}
  /\ x[1] \in AlnumChars
  /\ x[Len(x)] \in AlnumChars

\* C19: validate_repository_name raises ValidationError or returns its
\* input with the surrounding whitespace removed, and a returned name has at
\* most 100 characters, exactly one '/', an owner and a repo part of
\* [A-Za-z0-9._-] that start and end alphanumeric, no '..', no shell
\* metacharacter and no '${'.
C19_AcceptedRepositoryNameShape ==
  entry = "validate_repository_name" /\ pc = "done" =>
    \/ result = Raise("ValidationError")
    \/ /\ result = Return(Strip(val_input))
       /\ LET r == result.val
              slashes == {i \in 1..Len(r) : r[i] = "/"}
          IN  /\ Len(r) <= 100
              /\ Cardinality(slashes) = 1
              /\ \A k \in slashes :
                   /\ WellFormedPart(SubSeq(r, 1, k - 1))
                   /\ WellFormedPart(SubSeq(r, k + 1, Len(r)))
              /\ ~Contains(r, <<".",".">>)
              /\ \A i \in 1..Len(r) : r[i] \notin SHELL_CHARS
              /\ ~Contains(r, <<"$","{">>)

UNC_PREFIX == <<"\\","\\">>

\* C20: validate_file_path raises ValidationError for every string that
\* contains '..', with '/' or '\' as the separator and for both values of
\* allow_absolute; a path it returns contains no '..', does not start with
\* the UNC prefix and is absolute only when allow_absolute is True.
C20_FilePathRejectsTraversal ==
  entry = "validate_file_path" /\ pc = "done" =>
    /\ (IsStr(val_input) /\ Contains(val_input, <<".",".">>)
          => result = Raise("ValidationError"))
    /\ (result.kind = "return" =>
          /\ ~Contains(result.val, <<".",".">>)
          /\ ~StartsWith(result.val, UNC_PREFIX)
          /\ (StartsWith(result.val, <<"/">>) => val_allow_absolute))

C20_Witness ==
  /\ entry = "validate_file_path"
  /\ pc = "done"
  /\ val_input = <<"a","\\",".",".","\\","b">>
  /\ val_allow_absolute
  /\ result = Raise("ValidationError")

(***************************************************************************)
(* shared/validation.py: validate_url and validate_network_url called on   *)
(* their own                                                               *)
(***************************************************************************)
HTTP == <<"h","t","t","p">>
FTP == <<"f","t","p">>
\* validate_url, lines 275-276: the schemes allowed when none are given
DEFAULT_SCHEMES == {HTTPS, HTTP}

\* the allowed_schemes argument: absent (None) or a list
SchemeArgs ==
  { [given |-> FALSE, schemes |-> {}],
    [given |-> TRUE, schemes |-> {HTTPS}],
    [given |-> TRUE, schemes |-> {FTP}],
    [given |-> TRUE, schemes |-> {}] }

AllowedSchemes(arg) == IF arg.given THEN arg.schemes ELSE DEFAULT_SCHEMES

UrlSchemes ==
  { HTTPS, HTTP, FTP, <<"H","T","T","P","S">>, <<"h","t","\t","t","p","s">>,
    <<"j","a","v","a","s","c","r","i","p","t">>, <<>>, <<"1","h">> }
UrlHosts ==
  { <<"g","i","t","h","u","b",".","c","o","m">>,
    <<"a","p","i",".","g","i","t","h","u","b",".","c","o","m">>,
    <<"r","a","w",".","g","i","t","h","u","b","u","s","e","r","c","o","n","t","e","n","t",".","c","o","m">>,
    <<"c","o","d","e","l","o","a","d",".","g","i","t","h","u","b",".","c","o","m">>,
    <<"G","i","t","H","u","b",".","c","o","m",":","4","4","3">>,
    <<"e","v","i","l",".","c","o","m">>,
    <<"g","i","t","h","u","b",".","c","o","m",".","e","v","i","l",".","c","o","m">>,
    <<"x","g","i","t","h","u","b",".","c","o","m">>,
    <<"g","i","t","h","u","b",".","c","o","m","@","e","v","i","l",".","c","o","m">>,
    <<"e","v","i","l",".","c","o","m","@","g","i","t","h","u","b",".","c","o","m">>,
    <<"e","v","i","l",".","c","o","m","/","g","i","t","h","u","b",".","c","o","m">>,
    <<"e","v","i","l",".","c","o","m","?","g","i","t","h","u","b",".","c","o","m">>,
    <<"g","i","t","h","u","b",".","c","o","m",".">>,
    <<"[","g","i","t","h","u","b",".","c","o","m">>,
    <<>> }

\* inputs of validate_url and validate_network_url
UrlInputs ==
  {None, <<>>}
    \cup { pre \o scheme \o sep \o host \o tail :
             pre \in {<<>>, <<" ">>},
             scheme \in UrlSchemes,
             sep \in {<<":","/","/">>, <<":">>, <<"/","/">>},
             host \in UrlHosts,
             tail \in {<<>>, <<"/","o","/","r">>, <<"/","$","{","x","}">>} }

UrlEntries == {"validate_url", "validate_network_url"}

InitUrl ==
  /\ pc = "call"
  /\ entry \in UrlEntries
  /\ result = Pending
  /\ spawned = <<>>
  /\ logs = <<>>
  /\ val_input \in UrlInputs
  /\ val_allow_absolute = FALSE
  /\ IF entry = "validate_url"
       THEN val_schemes \in SchemeArgs
       ELSE val_schemes = [given |-> TRUE, schemes |-> {HTTPS}]
  /\ val_again = Pending
  /\ val_max_size = 0
  /\ yaml_loaded = <<>>
  /\ val_data = PyNone
  /\ RepoIdle
  /\ RunIdle
  /\ DlIdle
  /\ AnIdle
  /\ GhIdle
  /\ OutIdle

\* InputValidator.validate_url(val_input, val_schemes)
ValidateUrlCall ==
  /\ pc = "call"
  /\ entry = "validate_url"
  /\ result' = validate_url(val_input, AllowedSchemes(val_schemes))
  /\ pc' = "done"
  /\ UNCHANGED <<spawned, logs, entry, valVars, notValVars>>

\* InputValidator.validate_network_url(val_input)
ValidateNetworkUrlCall ==
  /\ pc = "call"
  /\ entry = "validate_network_url"
  /\ result' = validate_network_url(val_input)
  /\ pc' = "done"
  /\ UNCHANGED <<spawned, logs, entry, valVars, notValVars>>

NextUrl ==
  \/ ValidateUrlCall
  \/ ValidateNetworkUrlCall

SpecUrl == InitUrl /\ [][NextUrl]_vars

\* the four hosts network operations may address
GitHubHosts ==
  { <<"g","i","t","h","u","b",".","c","o","m">>,
    <<"a","p","i",".","g","i","t","h","u","b",".","c","o","m">>,
    <<"r","a","w",".","g","i","t","h","u","b","u","s","e","r","c","o","n","t","e","n","t",".","c","o","m">>,
    <<"c","o","d","e","l","o","a","d",".","g","i","t","h","u","b",".","c","o","m">> }

\* C21: validate_url returns a URL only if its parsed scheme is in the
\* allow-list of the caller (https and http when none is given), and
\* validate_network_url only if the scheme is https and the hostname is one
\* of github.com, api.github.com, raw.githubusercontent.com and
\* codeload.github.com; every other URL raises ValidationError.
C21_UrlSchemeAndHostAllowList ==
  entry \in UrlEntries /\ pc = "done" =>
    \/ result = Raise("ValidationError")
    \/ /\ result.kind = "return"
       /\ entry = "validate_url" =>
            UrlSplit(result.val).scheme \in
              (IF val_schemes.given THEN val_schemes.schemes
               ELSE {HTTPS, HTTP})
       /\ entry = "validate_network_url" =>
            /\ UrlSplit(result.val).scheme = HTTPS
            /\ UrlHostname(result.val) \in GitHubHosts

\* a host that only contains an allowed name was given and is refused
C21_Witness ==
  /\ entry = "validate_network_url"
  /\ pc = "done"
  /\ val_input = <<"h","t","t","p","s",":","/","/","g","i","t","h","u","b",".","c","o","m",".","e","v","i","l",".","c","o","m","/","o","/","r">>
  /\ result = Raise("ValidationError")

(***************************************************************************)
(* shared/security.py: SecuritySanitizer.sanitize_text                     *)
(***************************************************************************)
\* s[i:i+len(word)].lower() == word
MatchAtCI(s, i, word) ==
  /\ i >= 1
  /\ i + Len(word) - 1 <= Len(s)
  /\ \A k \in 1..Len(word) : ToLower(s[i + k - 1]) = word[k]

QuoteChars == {"'", "\""}
\* [A-Za-z0-9._\-~+/]
BearerChars == AlnumChars \cup {".", "_", "-", "~", "+", "/"}

KW_TOKEN == <<"t","o","k","e","n">>
KW_PASSWORD == <<"p","a","s","s","w","o","r","d">>
KW_PASSWD == <<"p","a","s","s","w","d">>
KW_SECRET == <<"s","e","c","r","e","t">>
KW_KEY == <<"k","e","y">>
KW_AUTH == <<"a","u","t","h">>

\* the length of the first of the words that matches at i, 0 when none does
RECURSIVE KeywordLen(_, _, _)
KeywordLen(s, i, words) ==
  IF words = <<>> THEN 0
  ELSE IF MatchAtCI(s, i, Head(words)) THEN Len(Head(words))
  ELSE KeywordLen(s, i, Tail(words))

\* Each operator below is one of self._patterns matched at position i: the
\* index of the last character of the match, 0 when there is no match at i.

\* \bgh[psu]_[A-Za-z0-9_]{36,255}: the token must start a word
GitHubTokenEnd_AtWordStart(s, i) ==
  IF /\ MatchAtCI(s, i, <<"g","h">>)
     /\ (i = 1 \/ s[i - 1] \notin WordChars)
     /\ i + 3 <= Len(s)
     /\ ToLower(s[i + 2]) \in {"p", "s", "u"}
     /\ s[i + 3] = "_"
    THEN LET n == RunEnd(s, i + 4, WordChars) - (i + 4)
         IN  IF n < 36 THEN 0
             ELSE IF n > 255 THEN i + 3 + 255
             ELSE i + 3 + n
    ELSE 0

\* gh[psu]_[A-Za-z0-9_]{36,255} (IGNORECASE)
GitHubTokenEnd(s, i) ==
  IF /\ MatchAtCI(s, i, <<"g","h">>)
     /\ i + 3 <= Len(s)
     /\ ToLower(s[i + 2]) \in {"p", "s", "u"}
     /\ s[i + 3] = "_"
    THEN LET n == RunEnd(s, i + 4, WordChars) - (i + 4)
         IN  IF n < 36 THEN 0
             ELSE IF n > 255 THEN i + 3 + 255
             ELSE i + 3 + n
    ELSE 0

\* (?:token|password|secret|key|auth)[\s:=]+[a-f0-9]{40}\b (IGNORECASE)
ClassicTokenEnd(s, i) ==
  LET w == KeywordLen(s, i, <<KW_TOKEN, KW_PASSWORD, KW_SECRET, KW_KEY,
                              KW_AUTH>>)
      e1 == RunEnd(s, i + w, SepChars)
  IN  IF /\ w > 0
         /\ e1 > i + w
         /\ e1 + 39 <= Len(s)
         /\ \A k \in e1..(e1 + 39) : s[k] \in HexChars
         /\ (e1 + 40 > Len(s) \/ s[e1 + 40] \notin WordChars)
        THEN e1 + 39
        ELSE 0

\* Bearer\s+[A-Za-z0-9._\-~+/]+=* (IGNORECASE)
BearerEnd(s, i) ==
  IF ~MatchAtCI(s, i, <<"b","e","a","r","e","r">>) THEN 0
  ELSE LET j == i + 6
           e1 == RunEnd(s, j, WhitespaceChars)
           e2 == RunEnd(s, e1, BearerChars)
       IN  IF e1 > j /\ e2 > e1 THEN RunEnd(s, e2, {"="}) - 1 ELSE 0

\* Authorization:\s*[^\s\n]+ (IGNORECASE)
AuthorizationEnd(s, i) ==
  IF ~MatchAtCI(s, i, <<"a","u","t","h","o","r","i","z","a","t","i","o","n",":">>) THEN 0
  ELSE LET e1 == RunEnd(s, i + 14, WhitespaceChars)
       IN  IF e1 <= Len(s) THEN Find(s, e1, WhitespaceChars) - 1 ELSE 0

\* https://[^@\s]*:[^@\s]*@[^\s]* (IGNORECASE)
UrlCredentialsEnd(s, i) ==
  IF ~MatchAtCI(s, i, <<"h","t","t","p","s",":","/","/">>) THEN 0
  ELSE LET j == i + 8
           r == Find(s, j, {"@"} \cup WhitespaceChars)
       IN  IF /\ r <= Len(s)
              /\ s[r] = "@"
              /\ \E k \in j..(r - 1) : s[k] = ":"
             THEN Find(s, r + 1, WhitespaceChars) - 1
             ELSE 0

\* https://[^?\s]*\?[^=\s]*token[^=\s]*=[^&\s]* (IGNORECASE)
UrlTokenParamEnd(s, i) ==
  IF ~MatchAtCI(s, i, <<"h","t","t","p","s",":","/","/">>) THEN 0
  ELSE LET q == Find(s, i + 8, {"?"} \cup WhitespaceChars)
           e == Find(s, q + 1, {"="} \cup WhitespaceChars)
       IN  IF /\ q <= Len(s)
              /\ s[q] = "?"
              /\ e <= Len(s)
              /\ s[e] = "="
              /\ \E k \in (q + 1)..(e - 5) : MatchAtCI(s, k, KW_TOKEN)
             THEN Find(s, e + 1, {"&"} \cup WhitespaceChars) - 1
             ELSE 0

DASHES == <<"-","-","-","-","-">>
PRIVATE_KEY == <<"P","R","I","V","A","T","E"," ","K","E","Y">>
\* <marker>[^-]*PRIVATE KEY----- matched at i: the index after the match
KeyLineEnd(s, i, marker) ==
  IF ~MatchAt(s, i, marker) THEN 0
  ELSE LET j == i + Len(marker)
           d == Find(s, j, {"-"})
       IN  IF /\ d - 11 >= j
              /\ MatchAt(s, d - 11, PRIVATE_KEY)
              /\ MatchAt(s, d, DASHES)
             THEN d + 5
             ELSE 0

\* -----BEGIN[^-]*PRIVATE KEY-----[^-]*-----END[^-]*PRIVATE KEY----- (DOTALL)
PrivateKeyEnd(s, i) ==
  LET b == KeyLineEnd(s, i, DASHES \o <<"B","E","G","I","N">>)
      e == IF b = 0 THEN 0
           ELSE KeyLineEnd(s, Find(s, b, {"-"}), DASHES \o <<"E","N","D">>)
  IN  IF e = 0 THEN 0 ELSE e - 1

\* AKIA[0-9A-Z]{16} (IGNORECASE)
AwsKeyEnd(s, i) ==
  IF /\ MatchAtCI(s, i, <<"a","k","i","a">>)
     /\ i + 19 <= Len(s)
     /\ \A k \in (i + 4)..(i + 19) : s[k] \in AlnumChars
    THEN i + 19
    ELSE 0

\* (?:password|passwd|secret|token)[\s:=]+['"]?[^\s'"]+ (IGNORECASE): when
\* no value follows the separators (or the quote), the regex backtracks and
\* the value starts at the last ':' or '=' of the separators that is not
\* their first character
SecretAssignmentEnd(s, i) ==
  LET w == KeywordLen(s, i, <<KW_PASSWORD, KW_PASSWD, KW_SECRET, KW_TOKEN>>)
      j == i + w
      e1 == RunEnd(s, j, SepChars)
      stop == WhitespaceChars \cup QuoteChars
      given == {k \in (j + 1)..(e1 - 1) : s[k] \in {":", "="}}
  IN  IF w = 0 \/ e1 = j THEN 0
      ELSE IF e1 <= Len(s) /\ s[e1] \notin QuoteChars
        THEN Find(s, e1, stop) - 1
      ELSE IF e1 + 1 <= Len(s) /\ s[e1 + 1] \notin stop
        THEN Find(s, e1 + 1, stop) - 1
      ELSE IF given # {} THEN Find(s, SetMax(given), stop) - 1
      ELSE 0

\* self._patterns[n - 1] matched at i
SecretMatchEnd(s, i, n) ==
  CASE n = 1 -> GitHubTokenEnd(s, i)
    [] n = 2 -> ClassicTokenEnd(s, i)
    [] n = 3 -> BearerEnd(s, i)
    [] n = 4 -> AuthorizationEnd(s, i)
    [] n = 5 -> UrlCredentialsEnd(s, i)
    [] n = 6 -> UrlTokenParamEnd(s, i)
    [] n = 7 -> PrivateKeyEnd(s, i)
    [] n = 8 -> AwsKeyEnd(s, i)
    [] n = 9 -> SecretAssignmentEnd(s, i)

NUM_PATTERNS == 9

\* pattern.sub("[REDACTED]", s) from position i on: leftmost matches, not
\* overlapping
RECURSIVE SecretSubFrom(_, _, _)
SecretSubFrom(s, i, n) ==
  IF i > Len(s) THEN <<>>
  ELSE LET e == SecretMatchEnd(s, i, n)
       IN  IF e >= i THEN REDACTED \o SecretSubFrom(s, e + 1, n)
           ELSE <<s[i]>> \o SecretSubFrom(s, i + 1, n)

\* the loop of sanitize_text, lines 50-51, from pattern n on
RECURSIVE ApplyPatterns(_, _)
ApplyPatterns(s, n) ==
  IF n > NUM_PATTERNS THEN s
  ELSE ApplyPatterns(SecretSubFrom(s, 1, n), n + 1)

\* SecuritySanitizer.sanitize_text(text): re.sub raises TypeError when text
\* is not a str
sanitize_text(text) ==
  IF text = None \/ text = <<>> THEN Return(text)
  ELSE IF ~IsStr(text) THEN Raise("TypeError")
  ELSE Return(ApplyPatterns(text, 1))

\* a GitHub token as the inputs hold it
TOKEN_P == <<"g","h","p","_">> \o [i \in 1..36 |-> "a"]
TOKEN_S == <<"G","H","S","_">> \o [i \in 1..36 |-> IF i % 2 = 1 THEN "A" ELSE "1"]

\* the longest text, in pieces
MaxPieces == 3
TextPieces ==
  { TOKEN_P, TOKEN_S, <<"g","h","u","_">>, <<"h","t","t","p","s",":","/","/","a",":">>, <<"t","o","k","e","n"," ","x">>, <<"'","@","h">>, <<" ">>, <<"=">>,
    <<"_","b">> }

RECURSIVE Concat(_)
Concat(parts) == IF parts = <<>> THEN <<>> ELSE Head(parts) \o Concat(Tail(parts))

\* inputs of sanitize_text
TextInputs ==
  {None}
    \cup { Concat(parts) : parts \in SeqsUpTo(TextPieces, MaxPieces) }
    \cup { <<"g","h","p","_">> \o [i \in 1..300 |-> "a"],
           <<"g","h","p","_">> \o [i \in 1..252 |-> "a"] \o TOKEN_P,
           <<"A","u","t","h","o","r","i","z","a","t","i","o","n",":"," ","B","e","a","r","e","r"," ">> \o TOKEN_P,
           <<"p","a","s","s","w","o","r","d",":"," ","\"","h","u","n","t","e","r","2","\""," ","k","e","y","=">> \o [i \in 1..40 |-> "f"] }

InitSanitizeText ==
  /\ pc = "call"
  /\ entry = "sanitize_text"
  /\ result = Pending
  /\ spawned = <<>>
  /\ logs = <<>>
  /\ val_input \in TextInputs
  /\ val_allow_absolute = FALSE
  /\ val_schemes = [given |-> FALSE, schemes |-> {}]
  /\ val_again = Pending
  /\ val_max_size = 0
  /\ yaml_loaded = <<>>
  /\ val_data = PyNone
  /\ RepoIdle
  /\ RunIdle
  /\ DlIdle
  /\ AnIdle
  /\ GhIdle
  /\ OutIdle

\* SecuritySanitizer.sanitize_text(val_input)
SanitizeTextCall ==
  /\ pc = "call"
  /\ entry = "sanitize_text"
  /\ result' = sanitize_text(val_input)
  /\ pc' = "returned"
  /\ UNCHANGED <<spawned, logs, entry, valVars, notValVars>>

\* SecuritySanitizer.sanitize_text(result of the first call)
SanitizeTextAgain ==
  /\ pc = "returned"
  /\ entry = "sanitize_text"
  /\ result.kind = "return"
  /\ val_again' = sanitize_text(result.val)
  /\ pc' = "done"
  /\ UNCHANGED <<result, spawned, logs, entry, val_input, val_allow_absolute,
                 val_schemes, val_data, val_max_size, yaml_loaded,
                 notValVars>>

(***************************************************************************)
(* shared/security.py: SecuritySanitizer.sanitize_dict                    *)
(***************************************************************************)
\* sanitize_dict, lines 66-77
SENSITIVE_NAMES ==
  { <<"t","o","k","e","n">>, <<"p","a","s","s","w","o","r","d">>, <<"s","e","c","r","e","t">>, <<"k","e","y">>, <<"a","u","t","h">>, <<"c","r","e","d","e","n","t","i","a","l">>, <<"p","r","i","v","a","t","e">>,
    <<"p","a","s","s","w","d">>, <<"a","u","t","h","o","r","i","z","a","t","i","o","n">>, <<"b","e","a","r","e","r">> }
\* lines 78-82
SENSITIVE_SUFFIXES ==
  { <<"_","t","o","k","e","n">>, <<"_","p","a","s","s","w","o","r","d">>, <<"_","s","e","c","r","e","t">>, <<"_","a","u","t","h">>, <<"_","c","r","e","d","e","n","t","i","a","l">> }
\* lines 83-86
SENSITIVE_PREFIXES == { <<"t","o","k","e","n","_">>, <<"p","a","s","s","w","o","r","d","_">>, <<"s","e","c","r","e","t","_">>, <<"a","u","t","h","_">> }
\* lines 87-89
SENSITIVE_PARTS == { <<"g","i","t","h","u","b","_","t","o","k","e","n">>, <<"a","p","i","_","k","e","y">>, <<"a","c","c","e","s","s","_","t","o","k","e","n">> }

\* is_sensitive of sanitize_dict, lines 64-90
IsSensitive(key_lower) ==
  \/ key_lower \in SENSITIVE_NAMES
  \/ \E x \in SENSITIVE_SUFFIXES : EndsWith(key_lower, x)
  \/ \E x \in SENSITIVE_PREFIXES : StartsWith(key_lower, x)
  \/ \E x \in SENSITIVE_PARTS : Contains(key_lower, x)

RECURSIVE sanitize_dict(_)
RECURSIVE SanitizeItems(_, _)
RECURSIVE SanitizeListItems(_, _)

\* lines 98-108: the comprehension over the items of a list
SanitizeListItems(items, done) ==
  IF items = <<>> THEN Return(PyList(done))
  ELSE LET item == Head(items)
           out == IF item.t = "str" THEN Return(PyStr(sanitize_text(item.v).val))
                  ELSE IF item.t = "dict" THEN sanitize_dict(item)
                  ELSE Return(item)
       IN  IF out.kind = "raise" THEN out
           ELSE SanitizeListItems(Tail(items), Append(done, out.val))

\* lines 61-110: the loop over data.items(); key.lower() raises
\* AttributeError for a key that is not a str
SanitizeItems(pairs, done) ==
  IF pairs = <<>> THEN Return(PyDict(done))
  ELSE LET key == Head(pairs).k
           value == Head(pairs).val
           out == IF IsSensitive(Lower(key.v)) THEN Return(PyStr(REDACTED))
                  ELSE IF value.t = "str"
                    THEN Return(PyStr(sanitize_text(value.v).val))
                  ELSE IF value.t = "dict" THEN sanitize_dict(value)
                  ELSE IF value.t = "list"
                    THEN SanitizeListItems(value.v, <<>>)
                  ELSE Return(value)
       IN  IF key.t # "str" THEN Raise("AttributeError")
           ELSE IF out.kind = "raise" THEN out
           ELSE SanitizeItems(Tail(pairs), Append(done, PyItem(key, out.val)))

\* SecuritySanitizer.sanitize_dict(data)
sanitize_dict(data) ==
  IF data.t # "dict" THEN Return(data)
  ELSE SanitizeItems(data.v, <<>>)

SECRET_TEXT == PyStr(<<"t","o","k","e","n","=","a","b","c">>)
DictKeys ==
  { PyStr(<<"t","o","k","e","n">>), PyStr(<<"p","r","i","v","a","t","e","_","k","e","y">>), PyStr(<<"k","e","y","_","i","d">>), PyStr(<<"A","P","I","_","K","E","Y">>),
    PyStr(<<"x","_","a","u","t","h">>), PyStr(<<"n","a","m","e">>), PyStr(<<"m","y","_","g","i","t","h","u","b","_","t","o","k","e","n","_","2">>),
    PyStr(<<"m","o","n","k","e","y">>), PyStr(<<"S","e","c","r","e","t","_">>), PyInt, PyNone }
DictValues ==
  { SECRET_TEXT, PyStr(<<"h","e","l","l","o">>), PyStr(<<>>), PyInt, PyNone,
    PyList(<<SECRET_TEXT, PyInt>>),
    PyList(<<PyList(<<SECRET_TEXT>>)>>),
    PyTuple(<<SECRET_TEXT>>) }

\* inputs of sanitize_dict: values that are no mapping, and one item at
\* depth one, two (below a mapping) and three (below a list)
DictInputs ==
  { PyNone, PyInt, SECRET_TEXT, PyList(<<SECRET_TEXT>>), PyDict(<<>>) }
    \cup { PyDict(<<PyItem(k, v)>>) : k \in DictKeys, v \in DictValues }
    \cup { PyDict(<<PyItem(PyStr(<<"o","u","t","e","r">>), PyDict(<<PyItem(k, v)>>))>>) :
             k \in DictKeys, v \in DictValues }
    \cup { PyDict(<<PyItem(PyStr(<<"f","i","r","s","t">>), SECRET_TEXT),
                    PyItem(PyStr(<<"o","u","t","e","r">>), PyList(<<PyDict(<<PyItem(k, v)>>)>>))>>) :
             k \in DictKeys, v \in DictValues }

InitSanitizeDict ==
  /\ pc = "call"
  /\ entry = "sanitize_dict"
  /\ result = Pending
  /\ spawned = <<>>
  /\ logs = <<>>
  /\ val_input = None
  /\ val_allow_absolute = FALSE
  /\ val_schemes = [given |-> FALSE, schemes |-> {}]
  /\ val_again = Pending
  /\ val_max_size = 0
  /\ yaml_loaded = <<>>
  /\ val_data \in DictInputs
  /\ RepoIdle
  /\ RunIdle
  /\ DlIdle
  /\ AnIdle
  /\ GhIdle
  /\ OutIdle

\* SecuritySanitizer.sanitize_dict(val_data)
SanitizeDictCall ==
  /\ pc = "call"
  /\ entry = "sanitize_dict"
  /\ result' = sanitize_dict(val_data)
  /\ pc' = "done"
  /\ UNCHANGED <<spawned, logs, entry, valVars, notValVars>>

InitSanitize == InitSanitizeText \/ InitSanitizeDict

NextSanitize ==
  \/ SanitizeTextCall
  \/ SanitizeTextAgain
  \/ SanitizeDictCall

SpecSanitize == InitSanitize /\ [][NextSanitize]_vars

\* C22: sanitize_text is idempotent: sanitizing the result of sanitize_text
\* again returns that result unchanged.
C22_SanitizeTextIdempotent ==
  entry = "sanitize_text" /\ pc = "done" => val_again = result

\* ghp_, ghs_ or ghu_ followed by at least 36 characters of [A-Za-z0-9_]
TokenShapeAt(s, i) ==
  /\ i + 39 <= Len(s)
  /\ SubSeq(s, i, i + 3) \in {<<"g","h","p","_">>, <<"g","h","s","_">>, <<"g","h","u","_">>}
  /\ \A k \in (i + 4)..(i + 39) : s[k] \in AlnumChars \cup {"_"}
HasTokenShape(s) == \E i \in 1..Len(s) : TokenShapeAt(s, i)

\* C23: when the text contains a GitHub token shape (ghp_, ghs_ or ghu_ and
\* at least 36 characters of [A-Za-z0-9_]), wherever it stands, the result
\* of sanitize_text contains no substring of that shape.
C23_TokenShapeRemoved ==
  /\ entry = "sanitize_text"
  /\ pc \in {"returned", "done"}
  /\ val_input # None
  /\ HasTokenShape(val_input)
  => result.kind = "return" /\ ~HasTokenShape(result.val)

\* a token that follows word characters and is followed by others
C23_Witness ==
  /\ entry = "sanitize_text"
  /\ pc = "returned"
  /\ val_input = <<"_","b">> \o TOKEN_P \o <<"=">>
  /\ result = Return(<<"_","b","[","R","E","D","A","C","T","E","D","]","=">>)

\* the key names the redaction of a value goes by
SecretWords ==
  { <<"t","o","k","e","n">>, <<"p","a","s","s","w","o","r","d">>, <<"s","e","c","r","e","t">>, <<"k","e","y">>, <<"a","u","t","h">>, <<"c","r","e","d","e","n","t","i","a","l">>, <<"p","r","i","v","a","t","e">>,
    <<"p","a","s","s","w","d">>, <<"a","u","t","h","o","r","i","z","a","t","i","o","n">>, <<"b","e","a","r","e","r">> }
NamesSecret(key) ==
  LET k == Lower(key) IN
  \/ k \in SecretWords
  \/ \E w \in SecretWords :
       StartsWith(k, w \o <<"_">>) \/ EndsWith(k, <<"_">> \o w)
  \/ \E x \in { <<"g","i","t","h","u","b","_","t","o","k","e","n">>, <<"a","p","i","_","k","e","y">>, <<"a","c","c","e","s","s","_","t","o","k","e","n">> } : Contains(k, x)

\* every key of every mapping in the value is a str
RECURSIVE StrKeysOnly(_)
StrKeysOnly(value) ==
  CASE value.t = "dict" ->
         \A n \in 1..Len(value.v) :
           value.v[n].k.t = "str" /\ StrKeysOnly(value.v[n].val)
    [] value.t \in {"list", "tuple"} ->
         \A n \in 1..Len(value.v) : StrKeysOnly(value.v[n])
    [] OTHER -> TRUE

\* the value with every secret-named entry redacted and every other string
\* leaf sanitized, through mappings and lists
RECURSIVE Redacted(_)
Redacted(value) ==
  CASE value.t = "dict" ->
         PyDict([n \in 1..Len(value.v) |->
           PyItem(value.v[n].k,
                  IF NamesSecret(value.v[n].k.v) THEN PyStr(REDACTED)
                  ELSE Redacted(value.v[n].val))])
    [] value.t = "list" ->
         PyList([n \in 1..Len(value.v) |-> Redacted(value.v[n])])
    [] value.t = "str" -> PyStr(sanitize_text(value.v).val)
    [] OTHER -> value

\* C24: in the result of sanitize_dict, at every depth reached through
\* mappings and sequences, the value under a key that names a secret (one of
\* the ten words exactly, as '_'-joined prefix or suffix, or containing
\* github_token, api_key or access_token) is the redaction marker, and every
\* other string leaf is sanitize_text of the original leaf.
C24_SensitiveKeysRedacted ==
  /\ entry = "sanitize_dict"
  /\ pc = "done"
  /\ val_data.t = "dict"
  /\ StrKeysOnly(val_data)
  => result = Return(Redacted(val_data))

\* C25: sanitize_text and sanitize_dict return a value for every input: None
\* or empty text, an argument that is no mapping, a mapping with keys that
\* are not strings or with values of any type.
C25_SanitizersNeverRaise ==
  entry \in {"sanitize_text", "sanitize_dict"} /\ pc \in {"returned", "done"}
    => result.kind = "return"

\* the git step of get_current_repo has run and read the remote URL
GitStepRead ==
  /\ pc = "returned"
  /\ spawned # <<>>
  /\ spawned[Len(spawned)].argv = GitRemoteArgv
  /\ git_remote.exc = "none"

\* the "/"-delimited segments of the path of an https URL, one trailing
\* ".git" removed: what follows the host
RemotePathSegments(u) ==
  LET bare == IF EndsWith(u, <<".","g","i","t">>) THEN SubSeq(u, 1, Len(u) - 4) ELSE u
      fields == Split(bare, "/")
  IN  IF StartsWith(u, <<"h","t","t","p","s",":","/","/">>) /\ Len(fields) > 3
        THEN SubSeq(fields, 4, Len(fields))
        ELSE <<>>

\* C27: the git step of get_current_repo, with remote URL u: an empty u, one
\* of more than 2048 characters or one without "github.com" gives None; a
\* returned name is owner/repo, the last two segments of the path of u with
\* one trailing ".git" removed, so the host is never the owner and a URL
\* with fewer than two path segments gives None.
C27_GitRemoteOwnerRepo ==
  GitStepRead =>
    LET u == Strip(git_remote.stdout)
        segs == RemotePathSegments(u)
    IN  /\ detected.kind = "return"
        /\ (u = <<>> \/ Len(u) > MAX_REMOTE_URL \/ ~Contains(u, GITHUB_COM)
              => detected.val = None)
        /\ (Len(segs) < 2 => detected.val = None)
        /\ (detected.val # None =>
              detected.val = segs[Len(segs) - 1] \o <<"/">> \o segs[Len(segs)])

\* C26: safe_run replaces the command name by the absolute path of the
\* executable before it spawns: the program of every spawn is an absolute
\* path, never the bare name, and a command that is not found makes the call
\* fail with no spawn.
C26_SpawnsResolvedExecutable ==
  entry = "safe_run" =>
    /\ \A n \in 1..Len(spawned) :
         LET program == spawned[n].argv[1]
         IN  IsStr(program) /\ program # <<>> /\ Head(program) = "/"
    /\ (pc = "done" /\ result = Raise("FileNotFoundError") => spawned = <<>>)

(***************************************************************************)
(* shared/validation.py: validate_commit_sha and validate_yaml_content,    *)
(* and the normalizing validators applied to their own result              *)
(***************************************************************************)
\* COMMIT_SHA_PATTERN, line 41: ^[a-f0-9]{7,40}$ ; "$" also matches before
\* a newline that ends the text
COMMIT_SHA_PATTERN(s) ==
  LET body == IF s # <<>> /\ s[Len(s)] = "\n"
                THEN SubSeq(s, 1, Len(s) - 1) ELSE s
  IN  /\ Len(body) >= 7
      /\ Len(body) <= 40
      /\ \A i \in 1..Len(body) :
           body[i] \in {"a", "b", "c", "d", "e", "f"} \cup DigitChars

\* InputValidator.validate_commit_sha(sha)
validate_commit_sha(sha) ==
  IF sha = None \/ sha = <<>> \/ ~IsStr(sha) THEN Raise("ValidationError")
  ELSE LET x == Lower(Strip(sha)) IN
    IF ~COMMIT_SHA_PATTERN(x) THEN Raise("ValidationError")
    ELSE Return(x)

\* validate_yaml_content, line 407: the default of max_size
DEFAULT_MAX_SIZE == 1024 * 1024

\* YAML texts and what yaml.safe_load makes of each
YamlMapping(k, v) == PyDict(<<PyItem(PyStr(k), v)>>)
YamlDocs ==
  { [text |-> <<"a",":"," ","b">>, loads |-> Return(YamlMapping(<<"a">>, PyStr(<<"b">>)))],
    [text |-> <<"{","a",":"," ","b","}">>, loads |-> Return(YamlMapping(<<"a">>, PyStr(<<"b">>)))],
    [text |-> <<"a",":"," ","{","b",":"," ","c","}">>,
       loads |-> Return(YamlMapping(<<"a">>, YamlMapping(<<"b">>, PyStr(<<"c">>))))],
    [text |-> <<"a",":"," ","[","b","]">>,
       loads |-> Return(YamlMapping(<<"a">>, PyList(<<PyStr(<<"b">>)>>)))],
    [text |-> <<"a",":">>, loads |-> Return(YamlMapping(<<"a">>, PyNone))],
    [text |-> <<"-"," ","a">>, loads |-> Return(PyList(<<PyStr(<<"a">>)>>))],
    [text |-> <<"[","a",","," ","b","]">>, loads |-> Return(PyList(<<PyStr(<<"a">>), PyStr(<<"b">>)>>))],
    [text |-> <<"h","e","l","l","o">>, loads |-> Return(PyStr(<<"h","e","l","l","o">>))],
    [text |-> <<"#"," ","c">>, loads |-> Return(PyNone)],
    [text |-> <<" "," "," ">>, loads |-> Return(PyNone)],
    [text |-> <<"~">>, loads |-> Return(PyNone)],
    [text |-> <<"a",":"," ","[">>, loads |-> Raise("YAMLError")],
    [text |-> <<"a",":"," ","b",":"," ","c">>, loads |-> Raise("YAMLError")],
    [text |-> <<"'","a">>, loads |-> Raise("YAMLError")],
    [text |-> <<"x",":"," ","$","{","y","}">>, loads |-> Return(YamlMapping(<<"x">>, PyStr(<<"$","{","y","}">>)))],
    [text |-> <<"x",":"," ","E","V","A","L"," ","(","y",")">>,
       loads |-> Return(YamlMapping(<<"x">>, PyStr(<<"E","V","A","L"," ","(","y",")">>)))],
    [text |-> <<"x",":"," ",".",".","/","y">>, loads |-> Return(YamlMapping(<<"x">>, PyStr(<<".",".","/","y">>)))],
    [text |-> <<"-"," ","<","s","c","r","i","p","t",">">>, loads |-> Return(PyList(<<PyStr(<<"<","s","c","r","i","p","t",">">>)>>))] }

\* yaml.safe_load(content)
SafeLoad(content) == (CHOOSE d \in YamlDocs : d.text = content).loads

\* validate_yaml_content without the scan for dangerous patterns
YamlPrecheckError_NoPatternScan(content, max_size) ==
  IF content = None \/ content = <<>> \/ ~IsStr(content)
    THEN "ValidationError"
  ELSE IF Len(content) > max_size THEN "ValidationError"
  ELSE "none"

\* validate_yaml_content, lines 409-418: what is tested before the parser
\* is called
YamlPrecheckError(content, max_size) ==
  IF content = None \/ content = <<>> \/ ~IsStr(content)
    THEN "ValidationError"
  ELSE IF Len(content) > max_size THEN "ValidationError"
  ELSE IF HasDangerousPattern(content) THEN "ValidationError"
  ELSE "none"

\* validate_yaml_content, lines 420-429: the value or the error that
\* follows from what yaml.safe_load gave
YamlParsed(loads) ==
  IF loads.kind = "raise" THEN Raise("ValidationError")
  ELSE IF loads.val = PyNone THEN Raise("ValidationError")
  ELSE IF loads.val.t # "dict" THEN Raise("ValidationError")
  ELSE loads

Normalizers ==
  { "validate_repository_name", "validate_file_path", "validate_filename",
    "validate_commit_sha" }

\* the validator of that name applied to a value
ApplyValidator(name, value, allow_absolute) ==
  CASE name = "validate_repository_name" -> validate_repository_name(value)
    [] name = "validate_file_path" -> validate_file_path(value, allow_absolute)
    [] name = "validate_filename" -> validate_filename(value)
    [] name = "validate_commit_sha" -> validate_commit_sha(value)

MaxNameLen == 2
NameChars == {"a", " ", ".", "/"}
\* paths and file names of up to MaxNameLen characters around a fixed one
ShortNames ==
  { pre \o <<"a">> \o post :
      pre \in SeqsUpTo(NameChars, MaxNameLen),
      post \in SeqsUpTo(NameChars, MaxNameLen) }
FilenameInputs ==
  { None, <<>>, IntFive, <<" ">>, <<"\t", "\n">>, <<" ","a",".","t","x","t"," ">>, <<"c","o","n">>, <<"C","O","N",".","t","x","t">>,
    <<"c","o","n"," ",".","t","x","t">>, <<"a", "\t", "b">>, <<"e","v","a","l","(","x",")">>, <<"a",".",".","b">>,
    [i \in 1..256 |-> "a"] }
    \cup ShortNames
ShaInputs ==
  { None, <<>>, IntFive, <<" ">>, <<"a","b","c","1","2","3","4">>, <<" ","A","B","C","1","2","3","4"," ">>, <<"a","b","c","1","2","3">>, <<"a","b","c","d","e","f","g">>,
    <<"a","b","c"," ","1","2","3","4">>, <<"a","b","c","1","2","3","4">> \o <<"\n">>,
    [i \in 1..40 |-> "F"], [i \in 1..41 |-> "f"] }
YamlInputs == {None, <<>>, IntFive} \cup {d.text : d \in YamlDocs}

InitValidators ==
  /\ pc = "call"
  /\ entry \in Normalizers \cup {"validate_yaml_content"}
  /\ result = Pending
  /\ spawned = <<>>
  /\ logs = <<>>
  /\ val_input \in
       CASE entry = "validate_repository_name" -> RepoNameInputs
         [] entry = "validate_file_path" -> FilePathInputs \cup ShortNames
         [] entry = "validate_filename" -> FilenameInputs
         [] entry = "validate_commit_sha" -> ShaInputs
         [] entry = "validate_yaml_content" -> YamlInputs
  /\ val_allow_absolute \in
       IF entry = "validate_file_path" THEN BOOLEAN ELSE {FALSE}
  /\ val_max_size \in
       IF entry = "validate_yaml_content" THEN {DEFAULT_MAX_SIZE, 4} ELSE {0}
  /\ val_schemes = [given |-> FALSE, schemes |-> {}]
  /\ val_again = Pending
  /\ val_data = PyNone
  /\ yaml_loaded = <<>>
  /\ RepoIdle
  /\ RunIdle
  /\ DlIdle
  /\ AnIdle
  /\ GhIdle
  /\ OutIdle

\* one of the normalizing validators called on val_input
ValidatorCall ==
  /\ pc = "call"
  /\ entry \in Normalizers
  /\ result' = ApplyValidator(entry, val_input, val_allow_absolute)
  /\ pc' = "returned"
  /\ UNCHANGED <<spawned, logs, entry, valVars, notValVars>>

\* the same validator called on the value it returned
ValidatorAgain ==
  /\ pc = "returned"
  /\ entry \in Normalizers
  /\ result.kind = "return"
  /\ val_again' = ApplyValidator(entry, result.val, val_allow_absolute)
  /\ pc' = "done"
  /\ UNCHANGED <<result, spawned, logs, entry, val_input, val_allow_absolute,
                 val_schemes, val_data, val_max_size, yaml_loaded,
                 notValVars>>

\* validate_yaml_content, lines 409-418
ValidateYamlPrecheck ==
  /\ pc = "call"
  /\ entry = "validate_yaml_content"
  /\ IF YamlPrecheckError(val_input, val_max_size) # "none"
       THEN /\ result' = Raise(YamlPrecheckError(val_input, val_max_size))
            /\ pc' = "done"
       ELSE /\ pc' = "parse"
            /\ UNCHANGED result
  /\ UNCHANGED <<spawned, logs, entry, valVars, notValVars>>

\* validate_yaml_content, lines 420-429: yaml.safe_load and the test of
\* what it returned
ValidateYamlParse ==
  /\ pc = "parse"
  /\ entry = "validate_yaml_content"
  /\ yaml_loaded' = Append(yaml_loaded, val_input)
  /\ result' = YamlParsed(SafeLoad(val_input))
  /\ pc' = "done"
  /\ UNCHANGED <<spawned, logs, entry, val_input, val_allow_absolute,
                 val_schemes, val_again, val_data, val_max_size, notValVars>>

NextValidators ==
  \/ ValidatorCall
  \/ ValidatorAgain
  \/ ValidateYamlPrecheck
  \/ ValidateYamlParse

SpecValidators == InitValidators /\ [][NextValidators]_vars

C30_ValidatorsIdempotent ==
  entry \in Normalizers /\ pc = "done" => val_again = result

\* the characters that chain commands or substitute in a shell
INJECTION_CHARS == {"$", BACKQUOTE, ";", "|", "&"}

\* C29: an argument that contains '$', a backquote, ';', '|' or '&' is never
\* taken for a safe context: validate_arguments reports it with a warning,
\* also when it is an argument with '/' of a `gh ... api ...` command.
C29_InjectionCharAlwaysWarned ==
  /\ entry = "safe_run"
  /\ pc \in {"validated", "running", "done"}
  /\ ValidateArgumentsError(run_args) = "none"
  => \A i \in 1..Len(run_args) :
       (\E k \in 1..Len(run_args[i]) : run_args[i][k] \in INJECTION_CHARS)
         => \E n \in 1..Len(logs) :
              /\ logs[n].level = "warn"
              /\ logs[n].raw = <<run_args[i]>>

(***************************************************************************)
(* The functions that spawn processes or open connections, together        *)
(***************************************************************************)
InitCore ==
  \/ InitRun
  \/ InitRepo
  \/ InitGh
  \/ InitDownload

NextCore ==
  \/ NextRun
  \/ NextRepo
  \/ NextGh
  \/ NextDownload

SpecCore == InitCore /\ [][NextCore]_vars

====
